---- MODULE Spec2Model ----
(***************************************************************************)
(* Job Search Copilot: the mail routine (MailAgent of                      *)
(* src/agents/mail-agent.ts and runMailListenerAgent of                    *)
(* skills/workflow-mail-listener/index.ts) over the applications and       *)
(* status_history tables.                                                  *)
(*                                                                         *)
(* Text is modelled at word granularity: a string is the sequence of its   *)
(* words (separated by single spaces), a line break is the word "\n".      *)
(* A regular expression of the source is the set of its alternatives, an   *)
(* alternative is the sequence of its literal pieces (joined by .* in the  *)
(* source), and a literal piece is the sequence of its words.              *)
(***************************************************************************)
EXTENDS Integers, Sequences, FiniteSets, TLC

VARIABLES applications, status_history, now, run, result, last,
          pass, skill_demand, probe, email_logs, inflight

\* pass is the aging pass under way, skill_demand the table of that name, probe the
\* latest call of a routine outside the mail runs and the passes, email_logs the table
\* of that name, inflight the processEmail call under way in each of two invocations
\* of the mail routine that overlap
others == <<pass, skill_demand, probe, email_logs, inflight>>

vars ==
  <<applications, status_history, now, run, result, last, pass, skill_demand, probe,
    email_logs, inflight>>

----------------------------------------------------------------------------
(* Bounds of the model *)

\* emails handed to the routines in one behaviour
MaxEmails == 2
\* words of the subject and body of an email put to the classification alone
MaxWords == 3

----------------------------------------------------------------------------
(* Text *)

Null == <<>>

RECURSIVE SeqsUpTo(_, _)
SeqsUpTo(S, n) ==
  IF n = 0 THEN {<<>>}
  ELSE LET shorter == SeqsUpTo(S, n - 1)
       IN  shorter \cup {Append(s, x) : s \in {t \in shorter : Len(t) = n - 1}, x \in S}

\* String.prototype.toLowerCase on one word
ToLower(w) ==
  CASE w = "Offer" -> "offer"
    [] w = "OA" -> "oa"
    [] w = "Acme" -> "acme"
    [] w = "Unknown" -> "unknown"
    [] w = "Role" -> "role"
    [] w = "Java" -> "java"
    [] w = "JavaScript" -> "javascript"
    [] w = "AWS" -> "aws"
    [] w = "Spring" -> "spring"
    [] w = "Boot" -> "boot"
    [] w = "Engineer" -> "engineer"
    [] OTHER -> w

LowerText(t) == [i \in 1..Len(t) |-> ToLower(t[i])]

\* <<w, t>>: the pattern word w occurs inside the longer word t
ProperSubstring ==
  { <<"schedule", "scheduled">>, <<"thank", "thanks">>,
    <<"for", "unfortunately">>, <<"date", "update">> }

ProperPrefix == { <<"schedule", "scheduled">>, <<"thank", "thanks">> }

ProperSuffix == { <<"date", "update">> }

Occurs(w, t) == w = t \/ <<w, t>> \in ProperSubstring
StartsWith(t, w) == w = t \/ <<w, t>> \in ProperPrefix
EndsWith(t, w) == w = t \/ <<w, t>> \in ProperSuffix

\* the literal piece (a sequence of words) matches the text at word i, case-insensitively
PieceAt(text, piece, i) ==
  /\ i + Len(piece) - 1 <= Len(text)
  /\ \A k \in 1..Len(piece) :
       LET t == ToLower(text[i + k - 1])
           w == ToLower(piece[k])
       IN  IF Len(piece) = 1 THEN Occurs(w, t)
           ELSE IF k = 1 THEN EndsWith(t, w)
           ELSE IF k = Len(piece) THEN StartsWith(t, w)
           ELSE t = w

\* one alternative: piece, or piece.*piece where . matches no line break
AlternativeMatches(alt, text) ==
  IF Len(alt) = 1
  THEN \E i \in 1..Len(text) : PieceAt(text, alt[1], i)
  ELSE \E i \in 1..Len(text), j \in 1..Len(text) :
         /\ PieceAt(text, alt[1], i)
         /\ j >= i + Len(alt[1])
         /\ PieceAt(text, alt[2], j)
         /\ \A k \in i..(j + Len(alt[2]) - 1) : text[k] # "\n"

\* RegExp.prototype.test
Test(regex, text) == \E alt \in regex : AlternativeMatches(alt, text)

L(w) == <<<<w>>>>
Then(a, b) == <<<<a>>, <<b>>>>

ListenerAgent == "mail-listener-agent"
ClassAgent == "MailAgent"
Agents == {ClassAgent, ListenerAgent}

EMAIL_PATTERNS ==
  [ agent \in Agents |->
  [ applicationReceived |->
      << { Then("confirmation", "receipt"), Then("received", "application"),
           Then("application", "confirm") },
         { Then("thanks", "applying"),
           << <<"thank", "you", "for", "your", "interest">> >>,
           Then("application", "submitted") } >>,
    interviewScheduled |->
      << { Then("interview", "scheduled"), Then("schedule", "interview"),
           Then("interview", "today"), Then("interview", "tomorrow") },
         { Then("meeting", "set"), Then("call", "scheduled"),
           << <<"let's", "talk">> >> }
         \cup (IF agent = ListenerAgent THEN { << <<"technical", "round">> >> } ELSE {}) >>,
    offer |->
      << { L("offer"), L("congratul"), << <<"excited", "to", "extend">> >>,
           << <<"we're", "pleased">> >>, << <<"we'd", "like", "to", "offer">> >> },
         { Then("joining", "team"), << <<"start", "date">> >>, L("compensation") } >>,
    rejection |->
      << { L("reject"), L("unfortunately"), << <<"not", "move", "forward">> >>,
           L("decline"), L("passing"), << <<"don't", "go", "forward">> >> },
         { << <<"selected", "other", "candidates">> >>,
           << <<"pursued", "other", "candidates">> >>,
           << <<"other", "applicants">> >> } >>,
    oaOrAssignment |->
      << { << <<"coding", "challenge">> >>, L("assignment"), L("take-home"),
           L("assessment"), L("OA"), << <<"online", "assessment">> >> },
         { Then("test", "available"), Then("complete", "test"),
           Then("problem", "solve") } >>,
    feedback |->
      << { L("feedback"), << <<"next", "round">> >>, L("advance"),
           << <<"interview", "feedback">> >>, L("consideration") } >> ] ]

EmailEventType ==
  { "APPLICATION_RECEIVED", "INTERVIEW_SCHEDULED", "OFFER", "REJECTION",
    "OA_SENT", "FEEDBACK", "UNKNOWN" }

\* an email as handed in by the caller; missing names the field the caller left out
SubjectOf(email) == IF email.missing = "subject" THEN <<"undefined">> ELSE email.subject
BodyOf(email) == IF email.missing = "body" THEN <<"undefined">> ELSE email.body

AnyTest(patterns, content) == \E i \in 1..Len(patterns) : Test(patterns[i], content)

\* a variant that tests the rejection family before the offer family
detectEmailEventType_rejectionFirst(agent, subject, body) ==
  LET content == LowerText(subject \o body)
      P == EMAIL_PATTERNS[agent]
  IN  IF AnyTest(P.rejection, content) THEN "REJECTION"
      ELSE IF AnyTest(P.offer, content) THEN "OFFER"
      ELSE IF AnyTest(P.interviewScheduled, content) THEN "INTERVIEW_SCHEDULED"
      ELSE IF AnyTest(P.oaOrAssignment, content) THEN "OA_SENT"
      ELSE IF AnyTest(P.applicationReceived, content) THEN "APPLICATION_RECEIVED"
      ELSE IF AnyTest(P.feedback, content) THEN "FEEDBACK"
      ELSE "UNKNOWN"

\* const content = `${subject} ${body}`.toLowerCase(), then the families in order
detectEmailEventType(agent, subject, body) ==
  LET content == LowerText(subject \o body)
      P == EMAIL_PATTERNS[agent]
  IN  IF AnyTest(P.offer, content) THEN "OFFER"
      ELSE IF AnyTest(P.rejection, content) THEN "REJECTION"
      ELSE IF AnyTest(P.interviewScheduled, content) THEN "INTERVIEW_SCHEDULED"
      ELSE IF AnyTest(P.oaOrAssignment, content) THEN "OA_SENT"
      ELSE IF AnyTest(P.applicationReceived, content) THEN "APPLICATION_RECEIVED"
      ELSE IF AnyTest(P.feedback, content) THEN "FEEDBACK"
      ELSE "UNKNOWN"


----------------------------------------------------------------------------
(* Field extraction (subject only) *)

\* words the character classes of the two captures reject
NotLetters == { "2024", "-", ":", "let's", "we're", "we'd", "don't", "take-home" }
NotCompanyChars == { "2024", ":", "let's", "we're", "we'd", "don't" }

NotLetterFirst == { "2024", "-", ":" }

StartsWithAny(t, ws) == \E w \in ws : StartsWith(ToLower(t), w)
EndsWithAny(t, ws) == \E w \in ws : EndsWith(ToLower(t), w)

Min(S) == CHOOSE x \in S : \A y \in S : x <= y

Max(S) == CHOOSE x \in S : \A y \in S : y <= x

\* keyword\s+(capture+?)(?:\s+(?:terminator)|\s*$), leftmost match, lazy capture;
\* the capture holds no word of notInClass and does not begin with a word of notFirst
Capture(subject, keywords, terminators, notInClass, notFirst) ==
  LET EndsAt(p) ==
        { q \in (p + 1)..Len(subject) :
            /\ subject[p + 1] \notin notFirst
            /\ \A k \in (p + 1)..q : subject[k] \notin notInClass
            /\ (q = Len(subject) \/ StartsWithAny(subject[q + 1], terminators)) }
      starts == { p \in 1..Len(subject) :
                    EndsWithAny(subject[p], keywords) /\ EndsAt(p) # {} }
  IN  IF starts = {} THEN Null
      ELSE LET p == Min(starts) IN SubSeq(subject, p + 1, Min(EndsAt(p)))

extractCompanyAndRole(subject) ==
  [ company |-> Capture(subject, {"from", "at", "with"},
                        {"for", "role", "position", "job", "-", ":"},
                        NotCompanyChars, NotLetterFirst),
    role |-> Capture(subject, {"for", "role", "position", "job"},
                     {"at", "from", "role", "position"},
                     NotLetters, NotLetters) ]

----------------------------------------------------------------------------
(* Time: an instant is a number of ticks, TicksPerDay of them to the day.  *)

TicksPerDay == 2

\* Math.floor((b.getTime() - a.getTime()) / (1000 * 60 * 60 * 24))
WholeDays(a, b) == (b - a) \div TicksPerDay

\* new Date().toISOString().split("T")[0], read back as that day's midnight
DateOf(t) == t - (t % TicksPerDay)

\* a column that holds no value
NoDate == -1

----------------------------------------------------------------------------
(* The store: tables applications and status_history (lib/db.ts).          *)
(* db is the pair of tables together with ops, the kinds of store          *)
(* operation issued so far while one email is processed; rej is the set of *)
(* kinds the store rejects during that email.                              *)

ApplicationStatus ==
  { "APPLIED", "SCREENING", "INTERVIEW", "OFFER", "REJECTED", "ACCEPTED",
    "ARCHIVED", "NEEDS_REVIEW", "FOLLOW_UP_SUGGESTED", "NO_RESPONSE" }

NoStatus == "null"
NoApp == 0
UnknownRole == <<"Unknown", "Role">>

StoreOps == { "select", "insert", "update", "history" }
\* while one email is processed the store rejects nothing, or every operation of one kind
Rejections == { {} } \cup { {op} : op \in StoreOps }

Store(apps, hist) == [apps |-> apps, hist |-> hist, ops |-> {}]
Issued(db, op) == [db EXCEPT !.ops = @ \cup {op}]

\* rows in insertion order (created_at descending is the reverse); [] when rejected
getApplications(db, rej) ==
  [ db |-> Issued(db, "select"),
    rows |-> IF "select" \in rej THEN <<>> ELSE db.apps ]

\* the inserted row's id, or null (NoApp) when the store rejects the insert
createApplication(db, rej, app, t) ==
  IF "insert" \in rej THEN [db |-> Issued(db, "insert"), id |-> NoApp]
  ELSE [ db |-> [ Issued(db, "insert") EXCEPT !.apps =
                    Append(@, [ id |-> Len(db.apps) + 1,
                                company_name |-> app.company_name,
                                job_title |-> app.job_title,
                                applied_date |-> app.applied_date,
                                current_status |-> app.current_status,
                                last_update |-> app.last_update,
                                days_in_stage |-> 0,
                                source_site |-> app.source_site,
                                created_at |-> t ]) ],
         id |-> Len(db.apps) + 1 ]

\* the updated row's id, or null (NoApp) when the store rejects the update
updateApplication(db, rej, applicationId, updates) ==
  IF "update" \in rej THEN [db |-> Issued(db, "update"), id |-> NoApp]
  ELSE [ db |-> [ Issued(db, "update") EXCEPT !.apps[applicationId] =
                    [f \in DOMAIN @ |-> IF f \in DOMAIN updates THEN updates[f] ELSE @[f]] ],
         id |-> applicationId ]

\* a variant that writes over the newest row instead of adding one
createStatusHistory_overwriting(db, rej, entry) ==
  IF "history" \in rej THEN Issued(db, "history")
  ELSE [Issued(db, "history") EXCEPT !.hist =
          IF @ = <<>> THEN <<entry>> ELSE [@ EXCEPT ![Len(@)] = entry]]

\* insert into status_history; nothing is written when the store rejects it
createStatusHistory(db, rej, entry) ==
  IF "history" \in rej THEN Issued(db, "history")
  ELSE [Issued(db, "history") EXCEPT !.hist = Append(@, entry)]

HistoryEntry(applicationId, oldStatus, newStatus, reason, detectedBy) ==
  [ application_id |-> applicationId, old_status |-> oldStatus,
    new_status |-> newStatus, reason |-> reason, detected_by |-> detectedBy ]

\* a variant that inserts every application at the column default APPLIED
NewApplication_alwaysApplied(company, role, status, t) ==
  [ company_name |-> company,
    job_title |-> IF role = Null THEN UnknownRole ELSE role,
    applied_date |-> DateOf(t),
    current_status |-> "APPLIED",
    last_update |-> t,
    source_site |-> "email" ]

\* the row the email handlers insert
NewApplication(company, role, status, t) ==
  [ company_name |-> company,
    job_title |-> IF role = Null THEN UnknownRole ELSE role,
    applied_date |-> DateOf(t),
    current_status |-> status,
    last_update |-> t,
    source_site |-> "email" ]

StatusUpdate(status, t) == [current_status |-> status, last_update |-> t]

\* a variant of the guard that lets every email through
noCompany_never(company) == FALSE

\* if (!company): extraction found no company (null; an empty capture cannot match)
noCompany(company) == company = Null


----------------------------------------------------------------------------
(* The emails handed to the routines *)

Email(subject, body, missing) == [subject |-> subject, body |-> body, missing |-> missing]

Bodies ==
  { <<"offer">>, <<"unfortunately">>, <<"interview", "scheduled">>, <<"assessment">>,
    <<"thanks", "applying">>, <<"feedback">>, <<"hello">> }

\* every body with the subject that names a company, three of them with the one that
\* names none, and the two emails that lack a field
Emails ==
  { Email(<<"at", "acme">>, b, "none") : b \in Bodies }
  \cup { Email(<<"hello">>, b, "none") : b \in { <<"offer">>, <<"assessment">>, <<"hello">> } }
  \cup { Email(Null, <<"offer">>, "subject"), Email(<<"at", "acme">>, Null, "body") }

\* detectEmailEventType and extractCompanyAndRole, evaluated once per email
EventTypeOf ==
  [ agent \in Agents |->
      [ email \in Emails |-> detectEmailEventType(agent, SubjectOf(email), BodyOf(email)) ] ]

ExtractedFrom == [ email \in Emails |-> extractCompanyAndRole(email.subject) ]

----------------------------------------------------------------------------
(* MailAgent (src/agents/mail-agent.ts) *)

Outcome(db, threw) == [db |-> db, threw |-> threw]

\* the most recently created row that matches, NoApp when none does
MailAgent_findExistingApplication(db, rej, company, role) ==
  LET g == getApplications(db, rej)
      hits == { i \in 1..Len(g.rows) :
                  /\ LowerText(g.rows[i].company_name) = LowerText(company)
                  /\ (role = Null \/ LowerText(g.rows[i].job_title) = LowerText(role)) }
  IN  [ db |-> g.db,
        id |-> IF hits = {} THEN NoApp ELSE CHOOSE i \in hits : \A j \in hits : j <= i ]

\* the application the handler goes on with: the one found, or the one it creates
MailAgent_ensureApplication(db, rej, t, company, role, found, status) ==
  IF found = NoApp
  THEN createApplication(db, rej, NewApplication(company, role, status, t), t)
  ELSE [db |-> db, id |-> found]

\* a variant that refreshes the application even when it is already APPLIED
MailAgent_handleApplicationReceived_alwaysUpdates(db, rej, t, company, role, found) ==
  LET c == MailAgent_ensureApplication(db, rej, t, company, role, found, "APPLIED")
  IN  IF c.id = NoApp THEN Outcome(c.db, TRUE)
      ELSE LET u == updateApplication(c.db, rej, c.id, StatusUpdate("APPLIED", t))
           IN  IF u.id = NoApp THEN Outcome(u.db, TRUE)
               ELSE Outcome(createStatusHistory(u.db, rej,
                              HistoryEntry(u.id, NoStatus, "APPLIED",
                                           "Application confirmation received", ClassAgent)),
                            FALSE)

MailAgent_handleApplicationReceived(db, rej, t, company, role, found) ==
  LET c == MailAgent_ensureApplication(db, rej, t, company, role, found, "APPLIED")
  IN  IF c.id = NoApp THEN Outcome(c.db, TRUE)
      ELSE IF c.db.apps[c.id].current_status = "APPLIED" THEN Outcome(c.db, FALSE)
      ELSE LET u == updateApplication(c.db, rej, c.id, StatusUpdate("APPLIED", t))
           IN  IF u.id = NoApp THEN Outcome(u.db, TRUE)
               ELSE Outcome(createStatusHistory(u.db, rej,
                              HistoryEntry(u.id, NoStatus, "APPLIED",
                                           "Application confirmation received", ClassAgent)),
                            FALSE)

\* a variant that leaves an ARCHIVED application at its status
MailAgent_overwriteStatus_keepsArchived(db, rej, t, company, role, found, status, reason) ==
  LET c == MailAgent_ensureApplication(db, rej, t, company, role, found, status)
  IN  IF c.id = NoApp THEN Outcome(c.db, TRUE)
      ELSE LET application == c.db.apps[c.id]
               u == IF application.current_status = "ARCHIVED" THEN c
                    ELSE updateApplication(c.db, rej, c.id, StatusUpdate(status, t))
           IN  Outcome(createStatusHistory(u.db, rej,
                         HistoryEntry(c.id, application.current_status, status,
                                      reason, ClassAgent)),
                       FALSE)

\* the body shared by handleInterviewScheduled, handleOffer and handleRejection
MailAgent_overwriteStatus(db, rej, t, company, role, found, status, reason) ==
  LET c == MailAgent_ensureApplication(db, rej, t, company, role, found, status)
  IN  IF c.id = NoApp THEN Outcome(c.db, TRUE)
      ELSE LET application == c.db.apps[c.id]
               u == updateApplication(c.db, rej, c.id, StatusUpdate(status, t))
           IN  Outcome(createStatusHistory(u.db, rej,
                         HistoryEntry(c.id, application.current_status, status,
                                      reason, ClassAgent)),
                       FALSE)

MailAgent_handleInterviewScheduled(db, rej, t, company, role, found) ==
  MailAgent_overwriteStatus(db, rej, t, company, role, found,
                            "INTERVIEW", "Interview scheduled")

MailAgent_handleOffer(db, rej, t, company, role, found) ==
  MailAgent_overwriteStatus(db, rej, t, company, role, found,
                            "OFFER", "Job offer received")

MailAgent_handleRejection(db, rej, t, company, role, found) ==
  MailAgent_overwriteStatus(db, rej, t, company, role, found,
                            "REJECTED", "Rejection received")

MailAgent_handleOAOrAssignment(db, rej, t, company, role, found) ==
  LET c == MailAgent_ensureApplication(db, rej, t, company, role, found, "SCREENING")
  IN  IF c.id = NoApp THEN Outcome(c.db, TRUE)
      ELSE LET application == c.db.apps[c.id]
               u == IF found # NoApp /\ application.current_status = "APPLIED"
                    THEN updateApplication(c.db, rej, c.id, StatusUpdate("SCREENING", t))
                    ELSE c
           IN  Outcome(createStatusHistory(u.db, rej,
                         HistoryEntry(c.id, application.current_status, "SCREENING",
                                      "Coding challenge or assessment sent", ClassAgent)),
                       FALSE)

MailAgent_handleFeedback(db, rej, found) ==
  IF found = NoApp THEN Outcome(db, FALSE)
  ELSE Outcome(createStatusHistory(db, rej,
                 HistoryEntry(found, db.apps[found].current_status,
                              db.apps[found].current_status, "Feedback received", ClassAgent)),
               FALSE)

\* case EmailEventType.UNKNOWN of processEmail; email.body.substring throws on a missing body
MailAgent_handleUnknown(db, rej, email, found) ==
  IF found = NoApp THEN Outcome(db, FALSE)
  ELSE IF email.missing = "body" THEN Outcome(db, TRUE)
  ELSE Outcome(createStatusHistory(db, rej,
                 HistoryEntry(found, db.apps[found].current_status, "NEEDS_REVIEW",
                              "Email event type unclear", ClassAgent)),
               FALSE)

\* what processEmail did: the store after it, whether it threw, and what it saw
Processed(o, eventType, company, role, found) ==
  [ db |-> o.db, threw |-> o.threw, eventType |-> eventType,
    company |-> company, role |-> role, found |-> found ]

\* subject.match throws on a missing subject
\* the switch of processEmail: the handler of the event type, given the application
\* that the lookup returned
MailAgent_handle(db, rej, t, email, found) ==
  LET eventType == EventTypeOf[ClassAgent][email]
      company == ExtractedFrom[email].company
      role == ExtractedFrom[email].role
  IN  CASE eventType = "APPLICATION_RECEIVED" ->
             MailAgent_handleApplicationReceived(db, rej, t, company, role, found)
        [] eventType = "INTERVIEW_SCHEDULED" ->
             MailAgent_handleInterviewScheduled(db, rej, t, company, role, found)
        [] eventType = "OFFER" ->
             MailAgent_handleOffer(db, rej, t, company, role, found)
        [] eventType = "REJECTION" ->
             MailAgent_handleRejection(db, rej, t, company, role, found)
        [] eventType = "OA_SENT" ->
             MailAgent_handleOAOrAssignment(db, rej, t, company, role, found)
        [] eventType = "FEEDBACK" ->
             MailAgent_handleFeedback(db, rej, found)
        [] OTHER ->
             MailAgent_handleUnknown(db, rej, email, found)

MailAgent_processEmail(db, rej, t, email) ==
  LET eventType == EventTypeOf[ClassAgent][email]
  IN  IF email.missing = "subject"
      THEN Processed(Outcome(db, TRUE), eventType, Null, Null, NoApp)
      ELSE
      LET company == ExtractedFrom[email].company
          role == ExtractedFrom[email].role
      IN  IF noCompany(company)
          THEN Processed(Outcome(db, FALSE), eventType, Null, role, NoApp)
          ELSE
          LET f == MailAgent_findExistingApplication(db, rej, company, role)
              o == MailAgent_handle(f.db, rej, t, email, f.id)
          IN  Processed(o, eventType, company, role, f.id)

----------------------------------------------------------------------------
(* runMailListenerAgent (skills/workflow-mail-listener/index.ts) *)

\* MailListenerResult; an errors entry is the batch position of the email it reports
NewResult ==
  [ success |-> TRUE, applicationsCreated |-> 0, applicationsUpdated |-> 0,
    escalations |-> 0, errors |-> <<>> ]

ListenerOutcome(db, threw, res) == [db |-> db, threw |-> threw, res |-> res]

\* .eq('company_name', company).order('created_at', desc).limit(1).single()
findExistingApplication(db, rej, company, role) ==
  LET hits == { i \in 1..Len(db.apps) : db.apps[i].company_name = company }
  IN  [ db |-> Issued(db, "select"),
        id |-> IF "select" \in rej \/ hits = {} THEN NoApp
               ELSE CHOOSE i \in hits : \A j \in hits : j <= i ]

Listener_createStatusHistory(db, rej, applicationId, oldStatus, newStatus, reason) ==
  createStatusHistory(db, rej,
    HistoryEntry(applicationId, oldStatus, newStatus, reason, ListenerAgent))

Created(res) == [res EXCEPT !.applicationsCreated = @ + 1]
Updated(res) == [res EXCEPT !.applicationsUpdated = @ + 1]

\* if (!application) insert, counted when the store returns the row
Listener_insert(db, rej, t, company, role, status, res) ==
  LET c == createApplication(db, rej, NewApplication(company, role, status, t), t)
  IN  [db |-> c.db, id |-> c.id, res |-> IF c.id # NoApp THEN Created(res) ELSE res]

\* update().eq('id', application.id): the outcome is not looked at
Listener_update(db, rej, t, found, status, res) ==
  [ db |-> updateApplication(db, rej, found, StatusUpdate(status, t)).db,
    id |-> found, res |-> Updated(res) ]

handleApplicationReceived(db, rej, t, company, role, found, res) ==
  LET c == IF found = NoApp THEN Listener_insert(db, rej, t, company, role, "APPLIED", res)
           ELSE IF db.apps[found].current_status # "APPLIED"
           THEN Listener_update(db, rej, t, found, "APPLIED", res)
           ELSE [db |-> db, id |-> found, res |-> res]
  IN  ListenerOutcome(
        IF c.id # NoApp
        THEN Listener_createStatusHistory(c.db, rej, c.id, NoStatus, "APPLIED",
                                          "Application confirmation received")
        ELSE c.db,
        FALSE, c.res)

\* the body shared by handleInterviewScheduled, handleOffer and handleRejection
overwriteStatus(db, rej, t, company, role, found, res, status, reason) ==
  LET c == IF found = NoApp THEN Listener_insert(db, rej, t, company, role, status, res)
           ELSE Listener_update(db, rej, t, found, status, res)
      oldStatus == IF found = NoApp THEN status ELSE db.apps[found].current_status
  IN  ListenerOutcome(
        IF c.id # NoApp
        THEN Listener_createStatusHistory(c.db, rej, c.id, oldStatus, status, reason)
        ELSE c.db,
        FALSE, c.res)

handleInterviewScheduled(db, rej, t, company, role, found, res) ==
  overwriteStatus(db, rej, t, company, role, found, res,
                  "INTERVIEW", "Interview scheduled")

handleOffer(db, rej, t, company, role, found, res) ==
  overwriteStatus(db, rej, t, company, role, found, res,
                  "OFFER", "Job offer received")

handleRejection(db, rej, t, company, role, found, res) ==
  overwriteStatus(db, rej, t, company, role, found, res,
                  "REJECTED", "Rejection received")

\* a variant that moves every existing application to SCREENING
handleOAOrAssignment_unguarded(db, rej, t, company, role, found, res) ==
  LET c == IF found = NoApp THEN Listener_insert(db, rej, t, company, role, "SCREENING", res)
           ELSE Listener_update(db, rej, t, found, "SCREENING", res)
      oldStatus == IF found = NoApp THEN "SCREENING" ELSE db.apps[found].current_status
  IN  ListenerOutcome(
        IF c.id # NoApp
        THEN Listener_createStatusHistory(c.db, rej, c.id, oldStatus, "SCREENING",
                                          "Coding challenge or assessment sent")
        ELSE c.db,
        FALSE, c.res)

handleOAOrAssignment(db, rej, t, company, role, found, res) ==
  LET c == IF found = NoApp THEN Listener_insert(db, rej, t, company, role, "SCREENING", res)
           ELSE IF db.apps[found].current_status = "APPLIED"
           THEN Listener_update(db, rej, t, found, "SCREENING", res)
           ELSE [db |-> db, id |-> found, res |-> res]
      oldStatus == IF found = NoApp THEN "SCREENING" ELSE db.apps[found].current_status
  IN  ListenerOutcome(
        IF c.id # NoApp
        THEN Listener_createStatusHistory(c.db, rej, c.id, oldStatus, "SCREENING",
                                          "Coding challenge or assessment sent")
        ELSE c.db,
        FALSE, c.res)

handleFeedback(db, rej, found, res) ==
  ListenerOutcome(
    IF found # NoApp
    THEN Listener_createStatusHistory(db, rej, found, db.apps[found].current_status,
                                      db.apps[found].current_status, "Feedback received")
    ELSE db,
    FALSE, res)

\* a variant that also moves the application to NEEDS_REVIEW
handleUnknown_setsStatus(db, rej, email, found, res) ==
  IF found = NoApp THEN ListenerOutcome(db, FALSE, res)
  ELSE IF email.missing = "body" THEN ListenerOutcome(db, TRUE, res)
  ELSE ListenerOutcome(
         Listener_createStatusHistory(
           updateApplication(db, rej, found,
                             [current_status |-> "NEEDS_REVIEW"]).db,
           rej, found, db.apps[found].current_status,
           "NEEDS_REVIEW", "Email event type unclear"),
         FALSE, [res EXCEPT !.escalations = @ + 1])

\* case EmailEventType.UNKNOWN of processEmail; email.body.substring throws on a missing body
handleUnknown(db, rej, email, found, res) ==
  IF found = NoApp THEN ListenerOutcome(db, FALSE, res)
  ELSE IF email.missing = "body" THEN ListenerOutcome(db, TRUE, res)
  ELSE ListenerOutcome(
         Listener_createStatusHistory(db, rej, found, db.apps[found].current_status,
                                      "NEEDS_REVIEW", "Email event type unclear"),
         FALSE, [res EXCEPT !.escalations = @ + 1])

ListenerProcessed(o, eventType, company, role, found) ==
  [ db |-> o.db, threw |-> o.threw, res |-> o.res,
    eventType |-> eventType, company |-> company, role |-> role, found |-> found ]

\* the switch of processEmail: the handler of the event type, given the application
\* that the lookup returned
Listener_handle(db, rej, t, email, found, res) ==
  LET eventType == EventTypeOf[ListenerAgent][email]
      company == ExtractedFrom[email].company
      role == ExtractedFrom[email].role
  IN  CASE eventType = "APPLICATION_RECEIVED" ->
             handleApplicationReceived(db, rej, t, company, role, found, res)
        [] eventType = "INTERVIEW_SCHEDULED" ->
             handleInterviewScheduled(db, rej, t, company, role, found, res)
        [] eventType = "OFFER" ->
             handleOffer(db, rej, t, company, role, found, res)
        [] eventType = "REJECTION" ->
             handleRejection(db, rej, t, company, role, found, res)
        [] eventType = "OA_SENT" ->
             handleOAOrAssignment(db, rej, t, company, role, found, res)
        [] eventType = "FEEDBACK" ->
             handleFeedback(db, rej, found, res)
        [] OTHER ->
             handleUnknown(db, rej, email, found, res)

\* subject.match throws on a missing subject
processEmail(db, rej, t, email, res) ==
  LET eventType == EventTypeOf[ListenerAgent][email]
  IN  IF email.missing = "subject"
      THEN ListenerProcessed(ListenerOutcome(db, TRUE, res), eventType, Null, Null, NoApp)
      ELSE
      LET company == ExtractedFrom[email].company
          role == ExtractedFrom[email].role
      IN  IF noCompany(company)
          THEN ListenerProcessed(
                 ListenerOutcome(db, FALSE, [res EXCEPT !.escalations = @ + 1]),
                 eventType, Null, role, NoApp)
          ELSE
          LET f == findExistingApplication(db, rej, company, role)
              o == Listener_handle(f.db, rej, t, email, f.id, res)
          IN  ListenerProcessed(o, eventType, company, role, f.id)

\* the catch block of runMailListenerAgent's loop
recordError(res, position) ==
  [res EXCEPT !.errors = Append(@, position), !.success = FALSE]


----------------------------------------------------------------------------
(* State *)

NoEmail == Email(Null, Null, "none")

\* what the latest processEmail call of the current run saw and did, with the tables
\* and the summary as they were before it
NoLast ==
  [ agent |-> "none", email |-> NoEmail, rej |-> {}, eventType |-> "none",
    company |-> Null, role |-> Null, found |-> NoApp, threw |-> FALSE,
    apps |-> <<>>, hist |-> <<>>, res |-> NewResult ]

\* two invocations of the mail routine (two requests, or two firings of the schedule)
Batches == {1, 2}

\* the locals of processEmail between its lookup and its handler
NoInflight ==
  [ b \in Batches |->
      [ pc |-> "idle", agent |-> "none", email |-> NoEmail, found |-> NoApp,
        seen |-> 0, res |-> NewResult ] ]

SeedRow(i, status) ==
  [ id |-> i, company_name |-> <<"acme">>, job_title |-> <<"engineer">>,
    applied_date |-> 0, current_status |-> status, last_update |-> 0,
    days_in_stage |-> 0, source_site |-> "manual", created_at |-> 0 ]

\* applications the user entered before the routines run
SeedTables == { <<>> } \cup { <<SeedRow(1, status)>> : status \in ApplicationStatus }

\* seen counts the emails processed over all runs
Idle == [pc |-> "idle", agent |-> "none", total |-> 0, idx |-> 0, failed |-> 0, seen |-> 0]

\* no aging pass under way; before holds the tables as the latest pass found them
\* clean: the store rejected nothing during the pass; prevClean: nor during the one before
NoPass ==
  [ pc |-> "idle", rows |-> <<>>, idx |-> 0, passes |-> 0, clean |-> TRUE,
    prevClean |-> TRUE, before |-> [apps |-> <<>>, hist |-> <<>>] ]

\* the last call of a routine outside the mail runs and the aging passes: its name,
\* its input, its result, the skill demands before it and the calls made so far
NoProbe == [fn |-> "none", input |-> <<>>, output |-> 0, before |-> <<>>, calls |-> 0]

\* the skill_demand table when nothing has been detected yet
NoSkillDemands == <<>>

\* now is the instant of the latest processEmail call: every call reads a later clock
Init ==
  /\ applications \in SeedTables
  /\ status_history = <<>>
  /\ now = 0
  /\ run = Idle
  /\ result = NewResult
  /\ last = NoLast
  /\ pass = NoPass
  /\ skill_demand = NoSkillDemands
  /\ probe = NoProbe
  /\ email_logs = <<>>
  /\ inflight = NoInflight

----------------------------------------------------------------------------
(* Actions *)

\* POST /api/agents/mail (MailAgent) or a call of runMailListenerAgent, with n emails;
\* a deployment is wired to one of the two implementations
StartRun(agent, n) ==
  /\ run.pc \in {"idle", "returned"}
  /\ run.agent \in {"none", agent}
  /\ run.seen + n <= MaxEmails
  /\ run' = [ pc |-> "loop", agent |-> agent, total |-> n, idx |-> 0, failed |-> 0,
              seen |-> run.seen ]
  /\ result' = IF agent = ListenerAgent THEN NewResult ELSE result
  /\ last' = NoLast
  /\ UNCHANGED <<applications, status_history, now>>
  /\ UNCHANGED others

\* a variant without the catch: the exception leaves the loop
nextEmail_rethrow(r, threw) ==
  [r EXCEPT !.idx = @ + 1, !.failed = @ + (IF threw THEN 1 ELSE 0), !.seen = @ + 1,
            !.pc = IF threw THEN "aborted" ELSE @]

\* for (const email of emails) { try { processEmail } catch { log } }: the loop goes on
nextEmail(r, threw) ==
  [r EXCEPT !.idx = @ + 1, !.failed = @ + (IF threw THEN 1 ELSE 0), !.seen = @ + 1]

Seen(agent, email, rej, p) ==
  [ agent |-> agent, email |-> email, rej |-> rej, eventType |-> p.eventType,
    company |-> p.company, role |-> p.role, found |-> p.found, threw |-> p.threw,
    apps |-> applications, hist |-> status_history, res |-> result ]

\* one iteration of MailAgent.processInboxEmails; the store rejects only what is issued
MailAgentEmail(email, rej) ==
  /\ run.pc = "loop" /\ run.agent = ClassAgent /\ run.idx < run.total
  /\ \E p \in { MailAgent_processEmail(Store(applications, status_history),
                                       rej, now + 1, email) } :
       /\ rej \subseteq p.db.ops
       /\ applications' = p.db.apps
       /\ status_history' = p.db.hist
       /\ run' = nextEmail(run, p.threw)
       /\ last' = Seen(ClassAgent, email, rej, p)
  /\ now' = now + 1
  /\ UNCHANGED result
  /\ UNCHANGED others

\* one iteration of runMailListenerAgent's loop
ListenerEmail(email, rej) ==
  /\ run.pc = "loop" /\ run.agent = ListenerAgent /\ run.idx < run.total
  /\ \E p \in { processEmail(Store(applications, status_history),
                             rej, now + 1, email, result) } :
       /\ rej \subseteq p.db.ops
       /\ applications' = p.db.apps
       /\ status_history' = p.db.hist
       /\ result' = IF p.threw THEN recordError(p.res, run.idx + 1) ELSE p.res
       /\ run' = nextEmail(run, p.threw)
       /\ last' = Seen(ListenerAgent, email, rej, p)
  /\ now' = now + 1
  /\ UNCHANGED others

\* the loop is over: processInboxEmails resolves, runMailListenerAgent returns result
Return ==
  /\ run.pc = "loop" /\ run.idx = run.total
  /\ run' = [run EXCEPT !.pc = "returned"]
  /\ UNCHANGED <<applications, status_history, now, result, last>>
  /\ UNCHANGED others

Next ==
  \/ \E agent \in Agents, n \in 1..MaxEmails : StartRun(agent, n)
  \/ \E email \in Emails, rej \in Rejections : MailAgentEmail(email, rej)
  \/ \E email \in Emails, rej \in Rejections : ListenerEmail(email, rej)
  \/ Return

Spec == Init /\ [][Next]_vars

----------------------------------------------------------------------------
(* Classification alone: any subject and body over the vocabulary of the   *)
(* patterns, put to detectEmailEventType of either implementation.         *)

Vocabulary ==
  { "offer", "unfortunately", "interview", "scheduled", "technical", "round",
    "assessment", "thanks", "applying", "feedback", "\n" }

\* every text of up to MaxWords words, as the body alone and as a one-word subject
\* with the rest as body
ClassifyEmails ==
  UNION { { Email(SubSeq(w, 1, k), SubSeq(w, k + 1, Len(w)), "none") :
              k \in 0..Min({1, Len(w)}) } :
          w \in SeqsUpTo(Vocabulary, MaxWords) }

InitClassify ==
  /\ applications = <<>>
  /\ status_history = <<>>
  /\ now = 0
  /\ run = Idle
  /\ result = NewResult
  /\ last \in { [NoLast EXCEPT !.email = email] : email \in ClassifyEmails }
  /\ pass = NoPass
  /\ skill_demand = NoSkillDemands
  /\ probe = NoProbe
  /\ email_logs = <<>>
  /\ inflight = NoInflight

Classify(agent) ==
  /\ last.eventType = "none"
  /\ last' = [last EXCEPT !.agent = agent,
                          !.eventType = detectEmailEventType(agent, SubjectOf(last.email),
                                                             BodyOf(last.email))]
  /\ UNCHANGED <<applications, status_history, now, run, result>>
  /\ UNCHANGED others

NextClassify == \E agent \in Agents : Classify(agent)

SpecClassify == InitClassify /\ [][NextClassify]_vars

----------------------------------------------------------------------------
(* TrackerAgent (src/agents/skill-research-agent.ts): the aging pass *)

MaxPasses == 2

NO_RESPONSE_THRESHOLD_DAYS == 14
FOLLOW_UP_SUGGESTION_DAYS == 7
EarlyRejectionDays == 3

TrackerName == "TrackerAgent"

Reverse(rows) == [i \in 1..Len(rows) |-> rows[Len(rows) + 1 - i]]

\* a variant of rule 1 that waits for more than the threshold
Tracker_followUp_strict(db, rej, application, daysInStage) ==
  IF /\ application.current_status = "APPLIED"
     /\ daysInStage > FOLLOW_UP_SUGGESTION_DAYS
  THEN createStatusHistory(
         updateApplication(db, rej, application.id,
                           [current_status |-> "FOLLOW_UP_SUGGESTED"]).db,
         rej,
         HistoryEntry(application.id, "APPLIED", "FOLLOW_UP_SUGGESTED",
                      "No response after N days", TrackerName))
  ELSE db

\* a variant of rule 1 that fires again from FOLLOW_UP_SUGGESTED
Tracker_followUp_again(db, rej, application, daysInStage) ==
  IF /\ application.current_status \in {"APPLIED", "FOLLOW_UP_SUGGESTED"}
     /\ daysInStage >= FOLLOW_UP_SUGGESTION_DAYS
  THEN createStatusHistory(
         updateApplication(db, rej, application.id,
                           [current_status |-> "FOLLOW_UP_SUGGESTED"]).db,
         rej,
         HistoryEntry(application.id, "APPLIED", "FOLLOW_UP_SUGGESTED",
                      "No response after N days", TrackerName))
  ELSE db

\* rule 1: the follow-up suggestion, decided on the row as the pass read it
Tracker_followUp(db, rej, application, daysInStage) ==
  IF /\ application.current_status = "APPLIED"
     /\ daysInStage >= FOLLOW_UP_SUGGESTION_DAYS
  THEN createStatusHistory(
         updateApplication(db, rej, application.id,
                           [current_status |-> "FOLLOW_UP_SUGGESTED"]).db,
         rej,
         HistoryEntry(application.id, "APPLIED", "FOLLOW_UP_SUGGESTED",
                      "No response after N days", TrackerName))
  ELSE db

\* a variant of rule 2 that looks at the days alone, not at the status
Tracker_noResponse_anyStatus(db, rej, application, daysSinceUpdate) ==
  IF daysSinceUpdate >= NO_RESPONSE_THRESHOLD_DAYS
  THEN createStatusHistory(
         updateApplication(db, rej, application.id,
                           [current_status |-> "NO_RESPONSE"]).db,
         rej,
         HistoryEntry(application.id, application.current_status, "NO_RESPONSE",
                      "No response for N days", TrackerName))
  ELSE db

\* a variant of rule 2 that takes ARCHIVED applications as well
Tracker_noResponse_archivedToo(db, rej, application, daysSinceUpdate) ==
  IF /\ daysSinceUpdate >= NO_RESPONSE_THRESHOLD_DAYS
     /\ application.current_status \in {"APPLIED", "FOLLOW_UP_SUGGESTED", "ARCHIVED"}
  THEN createStatusHistory(
         updateApplication(db, rej, application.id,
                           [current_status |-> "NO_RESPONSE"]).db,
         rej,
         HistoryEntry(application.id, application.current_status, "NO_RESPONSE",
                      "No response for N days", TrackerName))
  ELSE db

\* a variant of rule 2 that takes only applications still APPLIED
Tracker_noResponse_appliedOnly(db, rej, application, daysSinceUpdate) ==
  IF /\ daysSinceUpdate >= NO_RESPONSE_THRESHOLD_DAYS
     /\ application.current_status = "APPLIED"
  THEN createStatusHistory(
         updateApplication(db, rej, application.id,
                           [current_status |-> "NO_RESPONSE"]).db,
         rej,
         HistoryEntry(application.id, application.current_status, "NO_RESPONSE",
                      "No response for N days", TrackerName))
  ELSE db

\* rule 2: no response, decided on the row as the pass read it
Tracker_noResponse(db, rej, application, daysSinceUpdate) ==
  IF /\ daysSinceUpdate >= NO_RESPONSE_THRESHOLD_DAYS
     /\ application.current_status # "ARCHIVED"
     /\ application.current_status \in {"APPLIED", "FOLLOW_UP_SUGGESTED"}
  THEN createStatusHistory(
         updateApplication(db, rej, application.id,
                           [current_status |-> "NO_RESPONSE"]).db,
         rej,
         HistoryEntry(application.id, application.current_status, "NO_RESPONSE",
                      "No response for N days", TrackerName))
  ELSE db

\* a variant of rule 3 that compares the exact interval, not its whole days
Tracker_autoArchive_exactInterval(db, rej, application) ==
  IF /\ application.current_status = "REJECTED"
     /\ application.last_update - application.created_at
          <= EarlyRejectionDays * TicksPerDay
  THEN updateApplication(db, rej, application.id, [current_status |-> "ARCHIVED"]).db
  ELSE db

\* rule 3: an early rejection is archived, and no history row is written
Tracker_autoArchive(db, rej, application) ==
  IF /\ application.current_status = "REJECTED"
     /\ WholeDays(application.created_at, application.last_update) <= EarlyRejectionDays
  THEN updateApplication(db, rej, application.id, [current_status |-> "ARCHIVED"]).db
  ELSE db

\* a variant that leaves ARCHIVED applications alone
Tracker_processApplication_skipsArchived(db, rej, t, application) ==
  LET daysSinceUpdate == WholeDays(application.last_update, t)
      appliedDate == IF application.applied_date # NoDate THEN application.applied_date
                     ELSE application.created_at
      daysInStage == WholeDays(appliedDate, t)
      staged == updateApplication(db, rej, application.id,
                                  [days_in_stage |-> daysInStage]).db
  IN  IF application.current_status = "ARCHIVED" THEN db
      ELSE Tracker_autoArchive(
             Tracker_noResponse(
               Tracker_followUp(staged, rej, application, daysInStage),
               rej, application, daysSinceUpdate),
             rej, application)

\* application is the row as getApplications returned it when the pass began
Tracker_processApplication(db, rej, t, application) ==
  LET daysSinceUpdate == WholeDays(application.last_update, t)
      appliedDate == IF application.applied_date # NoDate THEN application.applied_date
                     ELSE application.created_at
      daysInStage == WholeDays(appliedDate, t)
      staged == updateApplication(db, rej, application.id,
                                  [days_in_stage |-> daysInStage]).db
  IN  Tracker_autoArchive(
        Tracker_noResponse(
          Tracker_followUp(staged, rej, application, daysInStage),
          rej, application, daysSinceUpdate),
        rej, application)

\* managePipeline: getApplications (newest first), then the loop
StartPass(rej) ==
  /\ pass.pc \in {"idle", "done"}
  /\ pass.passes < MaxPasses
  /\ rej \subseteq {"select"}
  /\ pass' = [ pc |-> "loop",
               rows |-> Reverse(getApplications(Store(applications, status_history),
                                                rej).rows),
               idx |-> 0, passes |-> pass.passes, clean |-> rej = {},
               prevClean |-> pass.clean,
               before |-> [apps |-> applications, hist |-> status_history] ]
  /\ UNCHANGED <<applications, status_history, now, run, result, last, skill_demand, probe, email_logs, inflight>>

\* one iteration of the loop of managePipeline
AgeApplication(rej) ==
  /\ pass.pc = "loop" /\ pass.idx < Len(pass.rows)
  /\ \E db \in { Tracker_processApplication(Store(applications, status_history), rej, now,
                                            pass.rows[pass.idx + 1]) } :
       /\ rej \subseteq db.ops
       /\ applications' = db.apps
       /\ status_history' = db.hist
  /\ pass' = [pass EXCEPT !.idx = @ + 1, !.clean = @ /\ rej = {}]
  /\ UNCHANGED <<now, run, result, last, skill_demand, probe, email_logs, inflight>>

\* managePipeline returns its metrics
EndPass ==
  /\ pass.pc = "loop" /\ pass.idx = Len(pass.rows)
  /\ pass' = [pass EXCEPT !.pc = "done", !.passes = @ + 1]
  /\ UNCHANGED <<applications, status_history, now, run, result, last, skill_demand, probe, email_logs, inflight>>

\* the instant at which the passes below run, half a day past midnight
Today == 30 * TicksPerDay + 1

AgedRow(i, status, appliedDaysAgo, updatedTicksAgo, createdTicksBefore) ==
  [ id |-> i, company_name |-> <<"acme">>, job_title |-> <<"engineer">>,
    applied_date |-> IF appliedDaysAgo = NoDate THEN NoDate
                     ELSE DateOf(Today) - appliedDaysAgo * TicksPerDay,
    current_status |-> status,
    last_update |-> Today - updatedTicksAgo,
    days_in_stage |-> 0, source_site |-> "manual",
    created_at |-> Today - updatedTicksAgo - createdTicksBefore ]

\* ages on both sides of each threshold
AppliedDaysAgo == { NoDate, 0, 6, 7, 10, 14 }
UpdatedTicksAgo ==
  { 0, 10 * TicksPerDay, NO_RESPONSE_THRESHOLD_DAYS * TicksPerDay - 1,
    NO_RESPONSE_THRESHOLD_DAYS * TicksPerDay, 20 * TicksPerDay }
CreatedTicksBefore ==
  { 0, TicksPerDay, EarlyRejectionDays * TicksPerDay,
    (EarlyRejectionDays + 1) * TicksPerDay - 1, (EarlyRejectionDays + 1) * TicksPerDay }

\* one application of any status and ages, or two of any statuses
AgingTables ==
  { <<AgedRow(1, status, a, u, c)>> :
      status \in ApplicationStatus, a \in AppliedDaysAgo,
      u \in UpdatedTicksAgo, c \in CreatedTicksBefore }
  \cup { << AgedRow(1, s1, 10, 20 * TicksPerDay, TicksPerDay),
            AgedRow(2, s2, 10, 10 * TicksPerDay, TicksPerDay) >> :
           s1 \in ApplicationStatus, s2 \in ApplicationStatus }

InitAging ==
  /\ applications \in AgingTables
  /\ status_history = <<>>
  /\ now = Today
  /\ run = Idle
  /\ result = NewResult
  /\ last = NoLast
  /\ pass = NoPass
  /\ skill_demand = NoSkillDemands
  /\ probe = NoProbe
  /\ email_logs = <<>>
  /\ inflight = NoInflight

NextAging ==
  \/ \E rej \in Rejections : StartPass(rej)
  \/ \E rej \in Rejections : AgeApplication(rej)
  \/ EndPass

SpecAging == InitAging /\ [][NextAging]_vars

----------------------------------------------------------------------------
(* The pipeline: mail runs and aging passes one after the other while the  *)
(* clock advances.                                                         *)

\* runs (mail runs of one email, aging passes) in one behaviour
MaxRuns == 3

ClockJump == FOLLOW_UP_SUGGESTION_DAYS * TicksPerDay
ClockLimit == NO_RESPONSE_THRESHOLD_DAYS * TicksPerDay + MaxRuns

PipelineTables ==
  { <<>> } \cup { <<SeedRow(1, status)>> : status \in {"APPLIED", "REJECTED", "ARCHIVED"} }

PipelineEmails ==
  { Email(<<"at", "acme">>, b, "none") :
      b \in { <<"thanks", "applying">>, <<"interview", "scheduled">>, <<"unfortunately">>,
              <<"assessment">>, <<"hello">> } }

InitPipeline ==
  /\ applications \in PipelineTables
  /\ status_history = <<>>
  /\ now = 0
  /\ run = Idle
  /\ result = NewResult
  /\ last = NoLast
  /\ pass = NoPass
  /\ skill_demand = NoSkillDemands
  /\ probe = NoProbe
  /\ email_logs = <<>>
  /\ inflight = NoInflight

\* in the pipeline a routine starts when the other one is not running
PipelineStartRun(agent) ==
  /\ run.seen + pass.passes < MaxRuns
  /\ pass.pc # "loop"
  /\ StartRun(agent, 1)

PipelineStartPass ==
  /\ run.seen + pass.passes < MaxRuns
  /\ run.pc \in {"idle", "returned"}
  /\ StartPass({})

\* a week goes by between two runs
AdvanceClock ==
  /\ run.pc # "loop" /\ pass.pc # "loop"
  /\ now + ClockJump <= ClockLimit
  /\ now' = now + ClockJump
  /\ UNCHANGED <<applications, status_history, run, result, last>>
  /\ UNCHANGED others

NextPipeline ==
  \/ \E agent \in Agents : PipelineStartRun(agent)
  \/ \E email \in PipelineEmails : MailAgentEmail(email, {})
  \/ \E email \in PipelineEmails : ListenerEmail(email, {})
  \/ Return
  \/ PipelineStartPass
  \/ AgeApplication({})
  \/ EndPass
  \/ AdvanceClock

SpecPipeline == InitPipeline /\ [][NextPipeline]_vars

----------------------------------------------------------------------------
(* SkillResearchAgent: analyzeMarketSkills over the descriptions of the    *)
(* rejected and the accepted applications. The skill_demand table is a     *)
(* function from the stored skill names to their rows (one row per skill). *)

\* calls of analyzeMarketSkills in one behaviour
MaxSkillRuns == 2

TRENDING_FREQUENCY_FLOOR == 3

\* the skills of SKILL_CLUSTERS that the descriptions below can mention; "javascript"
\* contains "java" without matching it as a word
KnownSkills == {"java", "javascript"}

Includes(word, skill) == word = skill \/ (word = "javascript" /\ skill = "java")

\* description.toLowerCase().includes(skillName.toLowerCase())
DescriptionIncludes(description, skill) ==
  \E k \in 1..Len(description) : Includes(description[k], skill)

\* matches of \bskill\b in one description
WordMatches(description, skill) ==
  Cardinality({ k \in 1..Len(description) : description[k] = skill })

RECURSIVE SumMatches(_, _)
SumMatches(descriptions, skill) ==
  IF descriptions = <<>> THEN 0
  ELSE WordMatches(Head(descriptions), skill) + SumMatches(Tail(descriptions), skill)

\* the frequency map: only skills matched at least once have an entry
extractSkillsFromDescriptions(descriptions) ==
  [ skill \in { k \in KnownSkills : SumMatches(descriptions, k) > 0 } |->
      SumMatches(descriptions, skill) ]

AppearsIn(apps, skill) ==
  Cardinality({ k \in 1..Len(apps) : DescriptionIncludes(apps[k], skill) })

SkillOps == {"list", "find", "update", "insert"}
SkillRejections == { {} } \cup { {op} : op \in SkillOps }

\* getSkillDemands: the stored rows, or none of them when the read is rejected
getSkillDemands(table, rej) ==
  IF "list" \in rej THEN NoSkillDemands ELSE table

isTrending(existing, skill, frequency, appearsInRejections, appearsInOffers) ==
  IF appearsInOffers > appearsInRejections /\ frequency > TRENDING_FREQUENCY_FLOOR
  THEN TRUE
  ELSE skill \in DOMAIN existing /\ existing[skill].rising_trend

\* one row's write: TRUE when createOrUpdateSkillDemand stores it. A rejected lookup
\* leads to an insert, which the unique key rejects when the row exists.
Stored(table, rej, skill) ==
  IF skill \in DOMAIN table /\ "find" \notin rej
  THEN "update" \notin rej
  ELSE skill \notin DOMAIN table /\ "insert" \notin rej

SkillRow(skill, frequency, trending, appearsInRejections, appearsInOffers) ==
  [ skill_name |-> skill, frequency |-> frequency, rising_trend |-> trending,
    appears_in_rejections |-> appearsInRejections, appears_in_offers |-> appearsInOffers ]

\* updateSkillDemands: the rows are written one skill after the other, each decided on
\* the rows read at the start of the run
\* the skills of the frequency map whose row the store takes
WrittenBy(table, rej, skillFrequency) ==
  { skill \in DOMAIN skillFrequency : Stored(table, rej, skill) }

updateSkillDemands(table, rej, skillFrequency, rejected, accepted) ==
  LET existing == getSkillDemands(table, rej)
      written == WrittenBy(table, rej, skillFrequency)
  IN  [ skill \in DOMAIN table \cup written |->
          IF skill \in written
          THEN SkillRow(skill, skillFrequency[skill],
                        isTrending(existing, skill, skillFrequency[skill],
                                   AppearsIn(rejected, skill), AppearsIn(accepted, skill)),
                        AppearsIn(rejected, skill), AppearsIn(accepted, skill))
          ELSE table[skill] ]

Descriptions ==
  { <<"java">>, <<"javascript">>, <<"java", "java">>, <<"java", "javascript">> }

RejectedLists == { <<>> } \cup { <<d>> : d \in Descriptions }
AcceptedLists ==
  { <<>> } \cup { <<d>> : d \in Descriptions }
           \cup { <<d, <<"java", "java">> >> : d \in Descriptions }

\* one call of analyzeMarketSkills
AnalyzeMarketSkills(rejected, accepted, rej) ==
  /\ probe.calls < MaxSkillRuns
  /\ skill_demand' = updateSkillDemands(skill_demand, rej,
                       extractSkillsFromDescriptions(rejected \o accepted),
                       rejected, accepted)
  /\ probe' = [ fn |-> "analyzeMarketSkills",
                input |-> rej,
                output |-> WrittenBy(skill_demand, rej,
                                     extractSkillsFromDescriptions(rejected \o accepted)),
                before |-> skill_demand, calls |-> probe.calls + 1 ]
  /\ UNCHANGED <<applications, status_history, now, run, result, last, pass, email_logs, inflight>>

InitSkills ==
  /\ applications = <<>>
  /\ status_history = <<>>
  /\ now = 0
  /\ run = Idle
  /\ result = NewResult
  /\ last = NoLast
  /\ pass = NoPass
  /\ skill_demand = NoSkillDemands
  /\ probe = NoProbe
  /\ email_logs = <<>>
  /\ inflight = NoInflight

NextSkills ==
  \E rejected \in RejectedLists, accepted \in AcceptedLists, rej \in SkillRejections :
    AnalyzeMarketSkills(rejected, accepted, rej)

SpecSkills == InitSkills /\ [][NextSkills]_vars

----------------------------------------------------------------------------
(* SystemObserverAgent: the dashboard metrics and the escalation on a zero *)
(* interview rate. The applications read are given by how many there are   *)
(* of each status; rates are kept in hundredths of a percent.              *)

\* Math.round(x) for x = num / den, not negative: halves go up
RoundHalfUp(num, den) == (2 * num + den) \div (2 * den)

\* Math.round(((part / total) * 100) * 100) / 100, in hundredths
RoundedRate(part, total) ==
  IF total > 0 THEN RoundHalfUp(100 * 100 * part, total) ELSE 0

RECURSIVE SumOver(_, _)
SumOver(counts, statuses) ==
  IF statuses = {} THEN 0
  ELSE LET s == CHOOSE x \in statuses : TRUE
       IN  counts[s] + SumOver(counts, statuses \ {s})

\* getApplicationsByStatus(...).length
CountOf(counts, status) == counts[status]

TotalInterviews(counts) ==
  CountOf(counts, "INTERVIEW") + CountOf(counts, "OFFER") + CountOf(counts, "ACCEPTED")

\* the rates, from applications.length and the lengths of the five lists read by status
MetricsFrom(totalApplications, counts) ==
  LET totalOffers == CountOf(counts, "OFFER") + CountOf(counts, "ACCEPTED")
      totalRejections == CountOf(counts, "REJECTED")
  IN  [ totalApplications |-> totalApplications,
        interviewRate |-> RoundedRate(TotalInterviews(counts), totalApplications),
        offerRate |-> RoundedRate(totalOffers, totalApplications),
        rejectionRate |-> RoundedRate(totalRejections, totalApplications) ]

\* computeMetrics when nothing is written between its reads
computeMetrics(counts) == MetricsFrom(SumOver(counts, ApplicationStatus), counts)

\* a variant whose threshold takes 5 applications as well
checkLowInterviewRateEscalation_fiveIncluded(counts) ==
  LET metrics == computeMetrics(counts)
  IN  metrics.totalApplications >= 5 /\ metrics.interviewRate = 0

checkLowInterviewRateEscalation(counts) ==
  LET metrics == computeMetrics(counts)
  IN  metrics.totalApplications > 5 /\ metrics.interviewRate = 0

\* applications still APPLIED: a few, and as many as the rounding needs to matter
AppliedCounts == {0, 3, 4, 5, 6, 19999, 20000, 20001}

StatusCounts ==
  { [ s \in ApplicationStatus |->
        CASE s = "APPLIED" -> a
          [] s = "INTERVIEW" -> i
          [] s = "OFFER" -> o
          [] s = "ACCEPTED" -> c
          [] s = "REJECTED" -> r
          [] OTHER -> 0 ] :
      a \in AppliedCounts, i \in 0..1, o \in 0..1, c \in 0..1, r \in 0..1 }

\* one call of checkLowInterviewRateEscalation
CheckEscalation(counts) ==
  /\ probe' = [ fn |-> "checkLowInterviewRateEscalation", input |-> counts,
                output |-> checkLowInterviewRateEscalation(counts),
                before |-> <<>>, calls |-> 0 ]
  /\ UNCHANGED <<applications, status_history, now, run, result, last, pass, skill_demand,
               email_logs, inflight>>

InitMetrics ==
  /\ applications = <<>>
  /\ status_history = <<>>
  /\ now = 0
  /\ run = Idle
  /\ result = NewResult
  /\ last = NoLast
  /\ pass = NoPass
  /\ skill_demand = NoSkillDemands
  /\ probe = NoProbe
  /\ email_logs = <<>>
  /\ inflight = NoInflight

NextMetrics == \E counts \in StatusCounts : CheckEscalation(counts)

SpecMetrics == InitMetrics /\ [][NextMetrics]_vars

----------------------------------------------------------------------------
(* JobMarketAgent: the match score of a listing against the user's skills. *)
(* The score is the fraction num / den.                                    *)

\* skills on the user's profile
MaxSkills == 2

\* the empty skill name
EmptySkill == ""

\* content.includes(skill) on the lowered content, for a skill of one word
ContentIncludes(content, skill) ==
  skill = EmptySkill \/ \E k \in 1..Len(content) : Includes(content[k], skill)

\* `${listing.title} ${listing.description}`.toLowerCase()
ContentOf(listing) == LowerText(listing.title \o listing.description)

\* the loop over this.user.skills, for a variant that does not lower the skill
RECURSIVE CountMatches_asDeclared(_, _)
CountMatches_asDeclared(content, skills) ==
  IF skills = <<>> THEN 0
  ELSE (IF ContentIncludes(content, Head(skills)) THEN 1 ELSE 0)
         + CountMatches_asDeclared(content, Tail(skills))

\* the loop over this.user.skills
RECURSIVE CountMatches(_, _)
CountMatches(content, skills) ==
  IF skills = <<>> THEN 0
  ELSE (IF ContentIncludes(content, ToLower(Head(skills))) THEN 1 ELSE 0)
         + CountMatches(content, Tail(skills))

\* Math.min(100, x) for x = num / den
AtMostHundred(score) ==
  IF score.num > 100 * score.den THEN [num |-> 100, den |-> 1] ELSE score

\* a variant that looks for the skills as they are declared
calculateMatchScore_caseSensitive(listing, skills) ==
  AtMostHundred([ num |-> CountMatches_asDeclared(ContentOf(listing), skills) * 100,
                  den |-> Max({Len(skills), 1}) ])

calculateMatchScore(listing, skills) ==
  AtMostHundred([ num |-> CountMatches(ContentOf(listing), skills) * 100,
                  den |-> Max({Len(skills), 1}) ])

Listings ==
  { [title |-> t, description |-> d] :
      t \in { <<"Engineer">>, <<"Java", "Engineer">> },
      d \in { <<>>, <<"Spring", "Boot", "AWS">>, <<"JavaScript">>, <<"java", "aws">> } }

SkillNames == {"Java", "AWS", "java", EmptySkill}

\* one call of calculateMatchScore for a user with the given skills
MatchListing(listing, skills) ==
  /\ probe' = [ fn |-> "calculateMatchScore",
                input |-> [listing |-> listing, skills |-> skills],
                output |-> calculateMatchScore(listing, skills),
                before |-> <<>>, calls |-> 0 ]
  /\ UNCHANGED <<applications, status_history, now, run, result, last, pass, skill_demand,
               email_logs, inflight>>

InitMatch ==
  /\ applications = <<>>
  /\ status_history = <<>>
  /\ now = 0
  /\ run = Idle
  /\ result = NewResult
  /\ last = NoLast
  /\ pass = NoPass
  /\ skill_demand = NoSkillDemands
  /\ probe = NoProbe
  /\ email_logs = <<>>
  /\ inflight = NoInflight

NextMatch ==
  \E listing \in Listings, skills \in SeqsUpTo(SkillNames, MaxSkills) :
    MatchListing(listing, skills)

SpecMatch == InitMatch /\ [][NextMatch]_vars

----------------------------------------------------------------------------
(* The metrics reporter: the methods of SystemObserverAgent, which read the *)
(* tables, and the daily handler, which sends the email of the day.         *)

\* daily emails logged in one behaviour
MaxReports == 2

\* how many applications of the table have the status
CountStatus(apps, status) ==
  Cardinality({ i \in 1..Len(apps) : apps[i].current_status = status })

\* what getApplications and getApplicationsByStatus return, by their lengths
StatusCountsOf(apps) == [ s \in ApplicationStatus |-> CountStatus(apps, s) ]

\* part / total * 100, 0 when there is no application, as the fraction num / den
Ratio(part, total) ==
  IF total > 0 THEN [num |-> part * 100, den |-> total] ELSE [num |-> 0, den |-> 1]

\* the metrics of the daily handler
Reporter_metrics(apps) ==
  [ totalApplications |-> Len(apps),
    interviewRate |-> Ratio(CountStatus(apps, "INTERVIEW"), Len(apps)),
    offerRate |-> Ratio(CountStatus(apps, "OFFER"), Len(apps)),
    rejectionRate |-> Ratio(CountStatus(apps, "REJECTED"), Len(apps)) ]

\* the row of email_logs for the email sent
EmailLog(jobs) == [email_to |-> "user", jobs |-> jobs, status |-> "SENT"]

\* SystemObserverAgent.computeMetrics and checkLowInterviewRateEscalation on the tables
ObserveMetrics ==
  /\ probe' = [ fn |-> "computeMetrics", input |-> StatusCountsOf(applications),
                output |-> checkLowInterviewRateEscalation(StatusCountsOf(applications)),
                before |-> <<>>, calls |-> 0 ]
  /\ UNCHANGED <<applications, status_history, now, run, result, last, pass, skill_demand,
                 email_logs, inflight>>

\* buildDailyEmailSummary then sendDailyEmail: the summary is read and logged to the
\* console
SendDailyEmail(jobs) ==
  /\ probe' = [ fn |-> "sendDailyEmail", input |-> jobs,
                output |-> CountStatus(applications, "INTERVIEW"),
                before |-> <<>>, calls |-> 0 ]
  /\ UNCHANGED <<applications, status_history, now, run, result, last, pass, skill_demand,
                 email_logs, inflight>>

\* a variant of the daily handler that keeps its log in status_history
ReporterCron_loggingToHistory(jobs, sent, rej) ==
  /\ Len(email_logs) < MaxReports
  /\ probe' = [ fn |-> "metrics-reporter", input |-> jobs,
                output |-> Reporter_metrics(applications),
                before |-> <<>>, calls |-> 0 ]
  /\ status_history' = IF jobs > 0 /\ sent /\ "insert" \notin rej
                       THEN Append(status_history,
                                   HistoryEntry(NoApp, NoStatus, NoStatus, "SENT", "reporter"))
                       ELSE status_history
  /\ email_logs' = IF jobs > 0 /\ sent /\ "insert" \notin rej
                   THEN Append(email_logs, EmailLog(jobs))
                   ELSE email_logs
  /\ UNCHANGED <<applications, now, run, result, last, pass, skill_demand, inflight>>

\* the daily handler for one user: jobs suggestions are open, the email goes out or not,
\* and the store takes what rej does not hold
ReporterCron(jobs, sent, rej) ==
  /\ Len(email_logs) < MaxReports
  /\ probe' = [ fn |-> "metrics-reporter", input |-> jobs,
                output |-> Reporter_metrics(applications),
                before |-> <<>>, calls |-> 0 ]
  /\ email_logs' = IF jobs > 0 /\ sent /\ "insert" \notin rej
                   THEN Append(email_logs, EmailLog(jobs))
                   ELSE email_logs
  /\ UNCHANGED <<applications, status_history, now, run, result, last, pass, skill_demand, inflight>>

InitReporter ==
  /\ applications \in SeedTables
  /\ status_history = <<>>
  /\ now = 0
  /\ run = Idle
  /\ result = NewResult
  /\ last = NoLast
  /\ pass = NoPass
  /\ skill_demand = NoSkillDemands
  /\ probe = NoProbe
  /\ email_logs = <<>>
  /\ inflight = NoInflight

NextReporter ==
  \/ ObserveMetrics
  \/ \E jobs \in 0..2 : SendDailyEmail(jobs)
  \/ \E jobs \in 0..2, sent \in BOOLEAN, rej \in {{}, {"insert"}} :
       ReporterCron(jobs, sent, rej)

SpecReporter == InitReporter /\ [][NextReporter]_vars

----------------------------------------------------------------------------
(* The mail routine and the aging pass triggered independently: their      *)
(* iterations interleave, each email and each application handled in one   *)
(* step.                                                                   *)

ConcurrentTables ==
  { <<>> }
  \cup { <<AgedRow(1, status, 10, u, TicksPerDay)>> :
           status \in {"APPLIED", "FOLLOW_UP_SUGGESTED", "REJECTED"},
           u \in {0, 20 * TicksPerDay} }

InitConcurrent ==
  /\ applications \in ConcurrentTables
  /\ status_history = <<>>
  /\ now = Today
  /\ run = Idle
  /\ result = NewResult
  /\ last = NoLast
  /\ pass = NoPass
  /\ skill_demand = NoSkillDemands
  /\ probe = NoProbe
  /\ email_logs = <<>>
  /\ inflight = NoInflight

NextConcurrent ==
  \/ \E agent \in Agents, n \in 1..MaxEmails : StartRun(agent, n)
  \/ \E email \in PipelineEmails : MailAgentEmail(email, {})
  \/ \E email \in PipelineEmails : ListenerEmail(email, {})
  \/ Return
  \/ StartPass({})
  \/ AgeApplication({})
  \/ EndPass

SpecConcurrent == InitConcurrent /\ [][NextConcurrent]_vars

----------------------------------------------------------------------------
(* Two invocations of the mail routine that overlap. processEmail awaits    *)
(* findExistingApplication and then awaits its handler, so the store serves *)
(* the statements of the other invocation between the two.                  *)

InterleavedEmails ==
  { Email(<<"at", "acme">>, b, "none") :
      b \in { <<"thanks", "applying">>, <<"interview", "scheduled">>, <<"unfortunately">> } }

InitInterleaved ==
  /\ applications \in { <<>>, <<SeedRow(1, "APPLIED")>> }
  /\ status_history = <<>>
  /\ now = 0
  /\ run = Idle
  /\ result = NewResult
  /\ last = NoLast
  /\ pass = NoPass
  /\ skill_demand = NoSkillDemands
  /\ probe = NoProbe
  /\ email_logs = <<>>
  /\ inflight = NoInflight

\* const existingApp = await findExistingApplication(company, role)
Lookup(b, agent, email) ==
  /\ inflight[b].pc = "idle"
  /\ inflight[b].seen < MaxEmails
  /\ \A c \in Batches : inflight[c].agent \in {"none", agent}
  /\ LET company == ExtractedFrom[email].company
         role == ExtractedFrom[email].role
         db == Store(applications, status_history)
         f == IF agent = ClassAgent
              THEN MailAgent_findExistingApplication(db, {}, company, role)
              ELSE findExistingApplication(db, {}, company, role)
     IN  inflight' = [inflight EXCEPT ![b] =
                        [ pc |-> "found", agent |-> agent, email |-> email,
                          found |-> f.id, seen |-> @.seen + 1, res |-> @.res ]]
  /\ UNCHANGED <<applications, status_history, now, run, result, last, pass,
                 skill_demand, probe, email_logs>>

\* switch (eventType) { ... await handle...(company, role, existingApp) }
Handle(b) ==
  /\ inflight[b].pc = "found"
  /\ LET db == Store(applications, status_history)
         email == inflight[b].email
         found == inflight[b].found
     IN  IF inflight[b].agent = ClassAgent
         THEN \E o \in { MailAgent_handle(db, {}, now + 1, email, found) } :
                /\ applications' = o.db.apps
                /\ status_history' = o.db.hist
                /\ inflight' = [inflight EXCEPT ![b].pc = "idle"]
         ELSE \E o \in { Listener_handle(db, {}, now + 1, email, found, inflight[b].res) } :
                /\ applications' = o.db.apps
                /\ status_history' = o.db.hist
                /\ inflight' = [inflight EXCEPT ![b].pc = "idle", ![b].res = o.res]
  /\ now' = now + 1
  /\ UNCHANGED <<run, result, last, pass, skill_demand, probe, email_logs>>

NextInterleaved ==
  \/ \E b \in Batches, agent \in Agents, email \in InterleavedEmails : Lookup(b, agent, email)
  \/ \E b \in Batches : Handle(b)

SpecInterleaved == InitInterleaved /\ [][NextInterleaved]_vars

----------------------------------------------------------------------------
(* The schedule of the aging passes: the tracker is triggered again and     *)
(* again while the days go by, and no email arrives. A day holds at most    *)
(* MaxPasses passes; the store accepts every statement.                     *)

LiveIds == 1..2

LiveClockLimit == Today + (NO_RESPONSE_THRESHOLD_DAYS + 1) * TicksPerDay

LiveTables ==
  { <<AgedRow(1, status, a, u, TicksPerDay)>> :
      status \in {"APPLIED", "FOLLOW_UP_SUGGESTED", "NO_RESPONSE"},
      a \in {NoDate, 0, 10}, u \in {0, 10 * TicksPerDay} }
  \cup { << AgedRow(1, "APPLIED", 0, 0, TicksPerDay),
            AgedRow(2, status, 10, TicksPerDay, TicksPerDay) >> :
           status \in {"APPLIED", "REJECTED"} }

InitLive ==
  /\ applications \in LiveTables
  /\ status_history = <<>>
  /\ now = Today
  /\ run = Idle
  /\ result = NewResult
  /\ last = NoLast
  /\ pass = NoPass
  /\ skill_demand = NoSkillDemands
  /\ probe = NoProbe
  /\ email_logs = <<>>
  /\ inflight = NoInflight

\* a day goes by between two passes; the schedule fires again on the new day
NextDay ==
  /\ pass.pc \in {"idle", "done"}
  /\ now + TicksPerDay <= LiveClockLimit
  /\ now' = now + TicksPerDay
  /\ pass' = [pass EXCEPT !.passes = 0]
  /\ UNCHANGED <<applications, status_history, run, result, last, skill_demand, probe,
                 email_logs, inflight>>

NextLive ==
  \/ StartPass({})
  \/ AgeApplication({})
  \/ EndPass
  \/ NextDay

\* the schedule triggers a pass every ten minutes and a triggered pass runs to its end;
\* days go by
SpecLive ==
  /\ InitLive
  /\ [][NextLive]_vars
  /\ WF_vars(StartPass({}))
  /\ WF_vars(AgeApplication({}))
  /\ WF_vars(EndPass)
  /\ WF_vars(NextDay)

----------------------------------------------------------------------------
(* computeMetrics while the mail routine runs: it awaits getApplications    *)
(* and then five times getApplicationsByStatus, and the store serves the    *)
(* statements of the mail routine between two of these reads.               *)

\* the statuses read, in the order of the awaits
MetricReads == <<"APPLIED", "INTERVIEW", "OFFER", "REJECTED", "ACCEPTED">>

NoMetrics ==
  [totalApplications |-> 0, interviewRate |-> 0, offerRate |-> 0, rejectionRate |-> 0]

ObserverEmails ==
  { Email(<<"at", "acme">>, b, "none") :
      b \in { <<"interview", "scheduled">>, <<"offer">>, <<"unfortunately">> } }

ObserverTables == { <<>> } \cup { <<SeedRow(1, status)>> : status \in {"APPLIED", "INTERVIEW"} }

InitObserver ==
  /\ applications \in ObserverTables
  /\ status_history = <<>>
  /\ now = 0
  /\ run = Idle
  /\ result = NewResult
  /\ last = NoLast
  /\ pass = NoPass
  /\ skill_demand = NoSkillDemands
  /\ probe = NoProbe
  /\ email_logs = <<>>
  /\ inflight = NoInflight

\* const applications = await getApplications(this.userId)
ReadApplications ==
  /\ probe.fn = "none" \/ probe.calls = Len(MetricReads) + 1
  /\ probe' = [ fn |-> "computeMetrics",
                input |-> [ total |-> Len(applications),
                            counts |-> [s \in ApplicationStatus |-> 0] ],
                output |-> NoMetrics, before |-> <<>>, calls |-> 1 ]
  /\ UNCHANGED <<applications, status_history, now, run, result, last, pass, skill_demand,
                 email_logs, inflight>>

\* const ...Apps = await getApplicationsByStatus(this.userId, status); after the last of
\* them the rates are computed from what was read
ReadByStatus ==
  /\ probe.fn = "computeMetrics" /\ probe.calls \in 1..Len(MetricReads)
  /\ LET status == MetricReads[probe.calls]
         counts == [probe.input.counts EXCEPT ![status] = CountStatus(applications, status)]
     IN  probe' = [probe EXCEPT
                     !.input.counts = counts,
                     !.calls = @ + 1,
                     !.output = IF probe.calls = Len(MetricReads)
                                THEN MetricsFrom(probe.input.total, counts) ELSE @ ]
  /\ UNCHANGED <<applications, status_history, now, run, result, last, pass, skill_demand,
                 email_logs, inflight>>

NextObserver ==
  \/ \E agent \in Agents, n \in 1..MaxEmails : StartRun(agent, n)
  \/ \E email \in ObserverEmails : MailAgentEmail(email, {})
  \/ \E email \in ObserverEmails : ListenerEmail(email, {})
  \/ Return
  \/ ReadApplications
  \/ ReadByStatus

SpecObserver == InitObserver /\ [][NextObserver]_vars

----------------------------------------------------------------------------
(* analyzeMarketSkills on stored applications: the two lists it works on    *)
(* are read from the applications table by status.                          *)

SkillApp(i, status, description) ==
  [ id |-> i, company_name |-> <<"acme">>, job_title |-> <<"engineer">>,
    description |-> description, applied_date |-> 0, current_status |-> status,
    last_update |-> 0, days_in_stage |-> 0, source_site |-> "manual", created_at |-> 0 ]

\* select * from applications where current_status = status
getApplicationsByStatus(apps, status) ==
  SelectSeq(apps, LAMBDA app : app.current_status = status)

\* rows.map((app) => app.description || "")
DescriptionsOf(rows) == [k \in 1..Len(rows) |-> rows[k].description]

SkillStatuses == {"APPLIED", "REJECTED", "OFFER", "ACCEPTED"}
SkillDescriptions == { Null, <<"java">>, <<"javascript">>, <<"java", "java">> }

SkillTables ==
  { <<>> }
  \cup { <<SkillApp(1, s, d)>> : s \in SkillStatuses, d \in SkillDescriptions }
  \cup { <<SkillApp(1, s1, d1), SkillApp(2, s2, d2)>> :
           s1 \in SkillStatuses, d1 \in SkillDescriptions,
           s2 \in SkillStatuses, d2 \in SkillDescriptions }

InitSkillCounts ==
  /\ applications \in SkillTables
  /\ status_history = <<>>
  /\ now = 0
  /\ run = Idle
  /\ result = NewResult
  /\ last = NoLast
  /\ pass = NoPass
  /\ skill_demand = NoSkillDemands
  /\ probe = NoProbe
  /\ email_logs = <<>>
  /\ inflight = NoInflight

\* analyzeMarketSkills: the REJECTED and the ACCEPTED applications are read
AnalyzeStoredApplications(rej) ==
  AnalyzeMarketSkills(DescriptionsOf(getApplicationsByStatus(applications, "REJECTED")),
                      DescriptionsOf(getApplicationsByStatus(applications, "ACCEPTED")),
                      rej)

NextSkillCounts == \E rej \in SkillRejections : AnalyzeStoredApplications(rej)

SpecSkillCounts == InitSkillCounts /\ [][NextSkillCounts]_vars

----------------------------------------------------------------------------
(* Vocabulary of the properties: last is the latest email's processing,    *)
(* with the tables and the summary as they were before it.                 *)

EmailDone == last.agent # "none"
Existing == EmailDone /\ last.found # NoApp
Before == last.apps[last.found]
After == applications[last.found]
OneRowAppended(before, after) ==
  Len(after) = Len(before) + 1 /\ SubSeq(after, 1, Len(before)) = before
Newest(table) == table[Len(table)]

\* the priority order of the families, as the specification lists it
PriorityOrder ==
  << "OFFER", "REJECTION", "INTERVIEW_SCHEDULED", "OA_SENT", "APPLICATION_RECEIVED",
     "FEEDBACK" >>

FamilyOf(agent, category) ==
  CASE category = "OFFER" -> EMAIL_PATTERNS[agent].offer
    [] category = "REJECTION" -> EMAIL_PATTERNS[agent].rejection
    [] category = "INTERVIEW_SCHEDULED" -> EMAIL_PATTERNS[agent].interviewScheduled
    [] category = "OA_SENT" -> EMAIL_PATTERNS[agent].oaOrAssignment
    [] category = "APPLICATION_RECEIVED" -> EMAIL_PATTERNS[agent].applicationReceived
    [] category = "FEEDBACK" -> EMAIL_PATTERNS[agent].feedback

\* the places in PriorityOrder of the families that match the classified text
MatchingFamilies ==
  LET content == LowerText(SubjectOf(last.email) \o BodyOf(last.email))
  IN  { i \in 1..Len(PriorityOrder) :
          AnyTest(FamilyOf(last.agent, PriorityOrder[i]), content) }

\* the status each event implies, as the specification lists it
ImpliedStatus(eventType) ==
  CASE eventType = "APPLICATION_RECEIVED" -> "APPLIED"
    [] eventType = "INTERVIEW_SCHEDULED" -> "INTERVIEW"
    [] eventType = "OFFER" -> "OFFER"
    [] eventType = "REJECTION" -> "REJECTED"
    [] eventType = "OA_SENT" -> "SCREENING"

CreatingEvents ==
  { "APPLICATION_RECEIVED", "INTERVIEW_SCHEDULED", "OFFER", "REJECTION", "OA_SENT" }

OverwritingEvents == { "INTERVIEW_SCHEDULED", "OFFER", "REJECTION" }

NoApplicationFor(apps, company) ==
  \A i \in 1..Len(apps) : LowerText(apps[i].company_name) # LowerText(company)

----------------------------------------------------------------------------
(* Properties *)

\* C1: detectEmailEventType returns one of the seven categories: the category of the
\* first family, in the order OFFER, REJECTION, INTERVIEW_SCHEDULED, OA_SENT,
\* APPLICATION_RECEIVED, FEEDBACK, that matches the text, and UNKNOWN exactly when no
\* family matches; a text matching an OFFER and a REJECTION pattern is OFFER.
C1_FirstMatchingFamily ==
  last.eventType # "none" =>
    /\ last.eventType \in EmailEventType
    /\ (last.eventType = "UNKNOWN") <=> (MatchingFamilies = {})
    /\ MatchingFamilies # {} => last.eventType = PriorityOrder[Min(MatchingFamilies)]
    /\ {1, 2} \subseteq MatchingFamilies => last.eventType = "OFFER"

\* a text with an OFFER pattern and a REJECTION pattern has been classified OFFER
C1_Witness ==
  /\ last.eventType = "OFFER"
  /\ {1, 2} \subseteq MatchingFamilies

\* C2: an email with an extracted company for which no application exists, classified
\* APPLICATION_RECEIVED, INTERVIEW_SCHEDULED, OFFER, REJECTION or OA_SENT, creates
\* exactly one application (the store accepting the insert), whose current_status after
\* the email is APPLIED, INTERVIEW, OFFER, REJECTED or SCREENING respectively.
C2_CreatesAtImpliedStatus ==
  ( /\ EmailDone
    /\ last.company # Null
    /\ NoApplicationFor(last.apps, last.company)
    /\ last.eventType \in CreatingEvents
    /\ "insert" \notin last.rej )
  => /\ OneRowAppended(last.apps, applications)
     /\ Newest(applications).company_name = last.company
     /\ Newest(applications).current_status = ImpliedStatus(last.eventType)

\* an interview email for a company without application has created one at INTERVIEW
C2_Witness ==
  /\ EmailDone
  /\ last.eventType = "INTERVIEW_SCHEDULED"
  /\ last.company = <<"acme">>
  /\ last.apps = <<>>
  /\ Len(applications) = 1
  /\ applications[1].current_status = "INTERVIEW"

\* C3: for an existing application in any of the ten statuses, an INTERVIEW_SCHEDULED,
\* OFFER or REJECTION email sets current_status to INTERVIEW, OFFER or REJECTED (the
\* store accepting the update); no current status blocks the overwrite.
C3_OverwriteFromAnyStatus ==
  ( /\ Existing
    /\ last.eventType \in OverwritingEvents
    /\ "update" \notin last.rej )
  => /\ Before.current_status \in ApplicationStatus
     /\ After.current_status = ImpliedStatus(last.eventType)
     /\ After.last_update = now
     /\ Len(applications) = Len(last.apps)

\* an ARCHIVED application has been moved to INTERVIEW by an interview email
C3_Witness ==
  /\ Existing
  /\ last.eventType = "INTERVIEW_SCHEDULED"
  /\ Before.current_status = "ARCHIVED"
  /\ After.current_status = "INTERVIEW"

\* C4: for an existing application an OA_SENT email changes current_status only when it
\* is APPLIED, to SCREENING; for every other current status the applications table,
\* this row's status and last_update included, is as it was before the email.
C4_AssessmentOnlyAdvancesApplied ==
  (Existing /\ last.eventType = "OA_SENT") =>
    IF Before.current_status = "APPLIED"
    THEN IF "update" \in last.rej THEN applications = last.apps
         ELSE /\ After.current_status = "SCREENING"
              /\ Len(applications) = Len(last.apps)
    ELSE applications = last.apps

\* an assessment email for an application at INTERVIEW has left the row alone
C4_Witness ==
  /\ Existing
  /\ last.eventType = "OA_SENT"
  /\ Before.current_status = "INTERVIEW"
  /\ After = Before
  /\ now > Before.last_update

\* C5: for an existing application already APPLIED an APPLICATION_RECEIVED email is a
\* no-op: the row (status and last_update) is unchanged and no application is created.
C5_ReceivedOnAppliedIsNoOp ==
  ( /\ Existing
    /\ last.eventType = "APPLICATION_RECEIVED"
    /\ Before.current_status = "APPLIED" )
  => /\ After = Before
     /\ applications = last.apps

\* a confirmation email for an APPLIED application has left the table alone
C5_Witness ==
  /\ Existing
  /\ last.eventType = "APPLICATION_RECEIVED"
  /\ Before.current_status = "APPLIED"
  /\ applications = last.apps
  /\ now > Before.last_update

\* C6: every email with which MailAgent.processEmail changes the applications table
\* (a status change, or a new application) writes exactly one status_history row
\* during that email, with detected_by the routine's attribution string.
C6_EveryTransitionWritesOneRow ==
  ( /\ EmailDone
    /\ last.agent = ClassAgent
    /\ last.rej = {}
    /\ ~last.threw
    /\ applications # last.apps )
  => /\ OneRowAppended(last.hist, status_history)
     /\ Newest(status_history).detected_by = ClassAgent

\* C7: an email classified UNKNOWN or FEEDBACK never modifies an applications row; for
\* an existing application it appends exactly one status_history row (the store
\* accepting it) with old_status the current status and new_status NEEDS_REVIEW
\* (UNKNOWN) or old_status (FEEDBACK); with no application it writes nothing.
C7_UnknownAndFeedbackOnlyAudit ==
  (EmailDone /\ last.eventType \in {"UNKNOWN", "FEEDBACK"}) =>
    /\ applications = last.apps
    /\ last.found = NoApp => status_history = last.hist
    /\ (last.found # NoApp /\ ~last.threw /\ "history" \notin last.rej) =>
         /\ OneRowAppended(last.hist, status_history)
         /\ Newest(status_history).application_id = last.found
         /\ Newest(status_history).old_status = Before.current_status
         /\ Newest(status_history).new_status =
              IF last.eventType = "UNKNOWN" THEN "NEEDS_REVIEW" ELSE Before.current_status

\* an unclear email for an existing application has added the NEEDS_REVIEW audit row
C7_Witness ==
  /\ Existing
  /\ last.eventType = "UNKNOWN"
  /\ OneRowAppended(last.hist, status_history)
  /\ Newest(status_history).new_status = "NEEDS_REVIEW"
  /\ applications = last.apps

\* C8: after an email classified UNKNOWN is processed for an existing application,
\* that application's current_status is NEEDS_REVIEW.
C8_UnknownSetsNeedsReview ==
  ( /\ Existing
    /\ last.eventType = "UNKNOWN"
    /\ last.rej = {}
    /\ ~last.threw )
  => After.current_status = "NEEDS_REVIEW"

\* C9: an email from whose subject no company is extracted writes nothing, whatever
\* its event: no application is created or updated, none ever has an empty company, no
\* status_history row is written; runMailListenerAgent counts one escalation for it.
C9_NoCompanyWritesNothing ==
  /\ \A i \in 1..Len(applications) : applications[i].company_name # Null
  /\ (EmailDone /\ last.email.missing # "subject" /\ last.company = Null) =>
       /\ applications = last.apps
       /\ status_history = last.hist
       /\ ~last.threw
       /\ last.agent = ListenerAgent =>
            result = [last.res EXCEPT !.escalations = @ + 1]

\* an offer email without company has been counted as an escalation and wrote nothing
C9_Witness ==
  /\ last.agent = ListenerAgent
  /\ last.email.missing = "none"
  /\ last.company = Null
  /\ last.eventType = "OFFER"
  /\ result.escalations = last.res.escalations + 1
  /\ applications = last.apps
  /\ status_history = last.hist

\* C10: an email that fails leaves the loop running: the routine returns only after
\* every email of the batch, in order, and nothing leaves it but the return;
\* runMailListenerAgent's summary holds one errors entry per failed email, in batch
\* order, and success is true exactly when errors is empty.
C10_FailureDoesNotStopTheBatch ==
  /\ run.pc \in {"idle", "loop", "returned"}
  /\ run.idx <= run.total
  /\ run.pc = "returned" => run.idx = run.total
  /\ (EmailDone /\ last.threw /\ run.idx >= 1) => run.pc \in {"loop", "returned"} /\ run.failed >= 1
  /\ (run.agent = ListenerAgent /\ run.pc # "idle") =>
       /\ Len(result.errors) = run.failed
       /\ result.success <=> (result.errors = <<>>)
       /\ \A i \in 1..Len(result.errors) :
            /\ result.errors[i] \in 1..run.idx
            /\ i > 1 => result.errors[i - 1] < result.errors[i]

\* a batch of two whose first email failed has returned after its second email was
\* processed and wrote to the tables
C10_Witness ==
  /\ run.pc = "returned"
  /\ run.agent = ListenerAgent
  /\ run.total = 2
  /\ result.errors = <<1>>
  /\ ~result.success
  /\ ~last.threw
  /\ applications # last.apps

----------------------------------------------------------------------------
(* Properties of the aging pass: pass.before holds the tables as the pass  *)
(* found them.                                                             *)

PassDone == pass.pc = "done"
AgedIds == 1..Len(pass.before.apps)
AsFound(i) == pass.before.apps[i]

\* the whole days from instant a to instant b, by their definition
ElapsedDays(a, b) ==
  CHOOSE d \in -100..100 : d * TicksPerDay <= b - a /\ b - a < (d + 1) * TicksPerDay

DaysInStageOf(row) ==
  ElapsedDays(IF row.applied_date = NoDate THEN row.created_at ELSE row.applied_date, now)

DaysSinceUpdateOf(row) == ElapsedDays(row.last_update, now)

\* the places of the history rows the pass wrote for application i, from old to new
WrittenByPass(i, old, new) ==
  { k \in (Len(pass.before.hist) + 1)..Len(status_history) :
      /\ status_history[k].application_id = i
      /\ status_history[k].old_status = old
      /\ status_history[k].new_status = new }

WrittenByPassFor(i) ==
  { k \in (Len(pass.before.hist) + 1)..Len(status_history) :
      status_history[k].application_id = i }

\* C11: in one aging pass (the store accepting its writes) an APPLIED application whose
\* whole days from applied_date, or created_at when there is none, to now are at least
\* 7 gets days_in_stage set to them and rule 1 fires: one history row APPLIED to
\* FOLLOW_UP_SUGGESTED, and the status FOLLOW_UP_SUGGESTED unless rule 2 moves it on to
\* NO_RESPONSE in the same pass (14 whole days since last_update); at 6 days or fewer
\* rule 1 does not fire.
C11_FollowUpAfterSevenDays ==
  (PassDone /\ pass.clean) =>
    \A i \in AgedIds :
      AsFound(i).current_status = "APPLIED" =>
        /\ applications[i].days_in_stage = DaysInStageOf(AsFound(i))
        /\ DaysInStageOf(AsFound(i)) >= 7 =>
             /\ Cardinality(WrittenByPass(i, "APPLIED", "FOLLOW_UP_SUGGESTED")) = 1
             /\ applications[i].current_status =
                  IF DaysSinceUpdateOf(AsFound(i)) >= 14 THEN "NO_RESPONSE"
                  ELSE "FOLLOW_UP_SUGGESTED"
        /\ DaysInStageOf(AsFound(i)) <= 6 =>
             /\ WrittenByPass(i, "APPLIED", "FOLLOW_UP_SUGGESTED") = {}
             /\ applications[i].current_status # "FOLLOW_UP_SUGGESTED"

\* an APPLIED application applied and last updated 10 days ago has ended the pass with
\* days_in_stage 10 at FOLLOW_UP_SUGGESTED
C11_Witness ==
  /\ PassDone /\ pass.clean /\ pass.passes = 1
  /\ \E i \in AgedIds :
       /\ AsFound(i).current_status = "APPLIED"
       /\ AsFound(i).applied_date = DateOf(now) - 10 * TicksPerDay
       /\ AsFound(i).last_update = now - 10 * TicksPerDay
       /\ applications[i].days_in_stage = 10
       /\ applications[i].current_status = "FOLLOW_UP_SUGGESTED"
       /\ Cardinality(WrittenByPassFor(i)) = 1

C14_SecondPassChangesNothing ==
  (PassDone /\ pass.passes >= 2 /\ pass.prevClean) =>
    /\ applications = pass.before.apps
    /\ status_history = pass.before.hist

\* a second pass has left alone the application the first moved to FOLLOW_UP_SUGGESTED
C14_Witness ==
  /\ PassDone /\ pass.passes = 2 /\ pass.prevClean /\ pass.clean
  /\ Len(pass.rows) = 1
  /\ applications[1].current_status = "FOLLOW_UP_SUGGESTED"
  /\ Len(status_history) = 1
  /\ status_history[1].new_status = "FOLLOW_UP_SUGGESTED"
  /\ applications = pass.before.apps

----------------------------------------------------------------------------
(* Properties of the pipeline                                              *)

\* an email was handled by this step; last' describes it
EmailStep == run'.seen = run.seen + 1

\* this step belongs to an aging pass
AgingStep == pass' # pass

\* the places of the history rows of application i
HistoryOf(i) == { k \in 1..Len(status_history) : status_history[k].application_id = i }

\* C15: the status history is append-only: every step of a mail run, of an aging pass or
\* of the clock leaves each row already written where it was and as it was, so the
\* history after a step is the history before it followed by the rows the step added.
C15_HistoryOnlyGrows ==
  [][ /\ Len(status_history') >= Len(status_history)
      /\ SubSeq(status_history', 1, Len(status_history)) = status_history ]_vars

\* a row written by a mail routine is still in place, unchanged, below a row written
\* later by the aging pass
C15_Witness ==
  \E j, k \in 1..Len(status_history) :
    /\ j < k
    /\ status_history[j].detected_by \in Agents
    /\ status_history[k].detected_by = TrackerName

\* C16 as stated: once ARCHIVED an application stays ARCHIVED under every step, and no
\* application is ever removed.
C16_ArchivedIsTerminal ==
  [][ /\ Len(applications') >= Len(applications)
      /\ \A i \in 1..Len(applications) :
           applications[i].current_status = "ARCHIVED"
             => applications'[i].current_status = "ARCHIVED" ]_vars

\* C16: no step removes an application or changes its id; no step of an aging pass
\* changes the status of an ARCHIVED application; the only step that takes an
\* application out of ARCHIVED is a mail step handling an email matched to it whose
\* event is APPLICATION_RECEIVED, INTERVIEW_SCHEDULED, OFFER or REJECTION, and it sets
\* the status that event implies.
C16_ArchivedLeftOnlyByEmail ==
  [][ /\ Len(applications') >= Len(applications)
      /\ \A i \in 1..Len(applications) :
           /\ applications'[i].id = applications[i].id
           /\ ( /\ applications[i].current_status = "ARCHIVED"
                /\ applications'[i].current_status # "ARCHIVED" )
                => /\ EmailStep
                   /\ ~AgingStep
                   /\ last'.found = i
                   /\ last'.eventType \in OverwritingEvents \cup {"APPLICATION_RECEIVED"}
                   /\ applications'[i].current_status = ImpliedStatus(last'.eventType) ]_vars

\* an aging pass has gone over an ARCHIVED application not updated for 14 days or more
\* and left it ARCHIVED
C16_Witness ==
  /\ PassDone
  /\ \E i \in AgedIds :
       /\ AsFound(i).current_status = "ARCHIVED"
       /\ DaysSinceUpdateOf(AsFound(i)) >= NO_RESPONSE_THRESHOLD_DAYS
       /\ applications[i].current_status = "ARCHIVED"
       /\ WrittenByPassFor(i) = {}

\* C17: every application that has a history row has the status its newest history row
\* moved it to.
C17_StatusIsLatestHistoryRow ==
  \A i \in 1..Len(applications) :
    HistoryOf(i) # {}
      => applications[i].current_status = status_history[Max(HistoryOf(i))].new_status

----------------------------------------------------------------------------
(* Properties of the skill demands                                         *)

SkillsDone == probe.fn = "analyzeMarketSkills"

\* the skills the last run wrote
WrittenSkills == probe.output

\* the run's read of the stored skill demands was answered
ReadAnswered == "list" \notin probe.input

TrendingBefore(skill) == skill \in DOMAIN probe.before /\ probe.before[skill].rising_trend

\* C18: every skill written by a run of analyzeMarketSkills has rising_trend equal to
\* (appears_in_offers > appears_in_rejections and frequency > 3) or the rising_trend
\* stored before the run, so a flag that was true is never false afterwards.
C18_TrendingIsSticky ==
  SkillsDone =>
    /\ \A skill \in WrittenSkills :
         skill_demand[skill].rising_trend =
           ( \/ /\ skill_demand[skill].appears_in_offers
                     > skill_demand[skill].appears_in_rejections
                /\ skill_demand[skill].frequency > 3
             \/ TrendingBefore(skill) )
    /\ \A skill \in DOMAIN probe.before :
         TrendingBefore(skill) => skill_demand[skill].rising_trend

\* C18 for the runs whose read of the stored skill demands is answered
C18_TrendingIsStickyWhenRead ==
  (SkillsDone /\ ReadAnswered) => C18_TrendingIsSticky

\* a run wrote a skill that was trending before and no longer meets the condition
C18_Witness ==
  /\ SkillsDone
  /\ ReadAnswered
  /\ \E skill \in WrittenSkills :
       /\ TrendingBefore(skill)
       /\ skill_demand[skill].appears_in_offers <= skill_demand[skill].appears_in_rejections
       /\ skill_demand[skill].rising_trend

----------------------------------------------------------------------------
(* Properties of the escalation                                            *)

EscalationChecked == probe.fn = "checkLowInterviewRateEscalation"
TotalChecked == SumOver(probe.input, ApplicationStatus)
InterviewsChecked == TotalInterviews(probe.input)

----------------------------------------------------------------------------
(* Properties of the match score                                           *)

MatchChecked == probe.fn = "calculateMatchScore"

\* the places of the declared skills found in the listing's text, whatever their case
SkillsFound ==
  { k \in 1..Len(probe.input.skills) :
      ContentIncludes(ContentOf(probe.input.listing), ToLower(probe.input.skills[k])) }

\* C20: the score is 100 x matches / max(skill count, 1), matches being the declared
\* skills found in the listing's text; it lies within [0, 100], is 0 for an empty skill
\* list, and is 50 when 1 of 2 skills is found.
C20_MatchScoreIsShareOfSkillsFound ==
  MatchChecked =>
    /\ probe.output.den > 0
    /\ probe.output.num * Max({Len(probe.input.skills), 1})
         = 100 * Cardinality(SkillsFound) * probe.output.den
    /\ 0 <= probe.output.num /\ probe.output.num <= 100 * probe.output.den
    /\ probe.input.skills = <<>> => probe.output.num = 0
    /\ (Len(probe.input.skills) = 2 /\ Cardinality(SkillsFound) = 1)
         => probe.output.num = 50 * probe.output.den

\* "Spring Boot AWS" against the skills Java and AWS: 1 of 2 found, the score is 50
C20_Witness ==
  /\ MatchChecked
  /\ probe.input.skills = <<"Java", "AWS">>
  /\ probe.input.listing = [title |-> <<"Engineer">>, description |-> <<"Spring", "Boot", "AWS">>]
  /\ probe.output.num = 50 * probe.output.den

----------------------------------------------------------------------------
(* Further properties of the aging pass                                    *)

\* the pass found application i APPLIED with both thresholds reached
BothRulesDue(i) ==
  /\ AsFound(i).current_status = "APPLIED"
  /\ DaysInStageOf(AsFound(i)) >= 7
  /\ DaysSinceUpdateOf(AsFound(i)) >= 14

\* C22 as stated: with both thresholds reached the pass ends at NO_RESPONSE with two
\* history rows, the second from FOLLOW_UP_SUGGESTED to NO_RESPONSE.
C22_SecondRowFromFollowUp ==
  (PassDone /\ pass.clean) =>
    \A i \in AgedIds :
      BothRulesDue(i) =>
        /\ applications[i].current_status = "NO_RESPONSE"
        /\ Cardinality(WrittenByPassFor(i)) = 2
        /\ Cardinality(WrittenByPass(i, "FOLLOW_UP_SUGGESTED", "NO_RESPONSE")) = 1

\* C22 as the pass behaves: with both thresholds reached rules 1 and 2 both fire, each
\* decided on the status the pass fetched: the pass ends at NO_RESPONSE with two history
\* rows, the first from APPLIED to FOLLOW_UP_SUGGESTED, the second from APPLIED to
\* NO_RESPONSE.
C22_BothRulesFireOnFetchedStatus ==
  (PassDone /\ pass.clean) =>
    \A i \in AgedIds :
      BothRulesDue(i) =>
        /\ applications[i].current_status = "NO_RESPONSE"
        /\ Cardinality(WrittenByPassFor(i)) = 2
        /\ \E j \in WrittenByPass(i, "APPLIED", "FOLLOW_UP_SUGGESTED"),
              k \in WrittenByPass(i, "APPLIED", "NO_RESPONSE") : j < k

\* an application found APPLIED, applied 14 days ago and last updated 14 days ago or
\* more, has ended the pass at NO_RESPONSE with two rows
C22_Witness ==
  /\ PassDone /\ pass.clean /\ pass.passes = 1
  /\ \E i \in AgedIds :
       /\ BothRulesDue(i)
       /\ applications[i].current_status = "NO_RESPONSE"
       /\ Cardinality(WrittenByPassFor(i)) = 2

C24_NoRowForRejectedWrite ==
  PassDone =>
    \A i \in AgedIds :
      WrittenByPassFor(i) # {}
        => applications[i].current_status # AsFound(i).current_status

----------------------------------------------------------------------------
(* The old status recorded by the history rows                             *)

\* the status of application i in the store, NoStatus while it does not exist
StoredStatus(i) ==
  IF i \in 1..Len(applications) THEN applications[i].current_status ELSE NoStatus

\* C27: every history row written by a step of the mail routine or of the aging pass has
\* as old_status the status its application had in the store just before that step, and
\* null when the step created the application.
C27_OldStatusIsStoredStatus ==
  [][ \A k \in (Len(status_history) + 1)..Len(status_history') :
        status_history'[k].old_status = StoredStatus(status_history'[k].application_id) ]_vars

----------------------------------------------------------------------------
(* Properties of the metrics reporter                                      *)

----------------------------------------------------------------------------
(* Properties of the routines running concurrently                         *)

\* the statuses the mail routine writes
MailStatuses == {"SCREENING", "INTERVIEW", "OFFER", "REJECTED"}

\* this step is the pass handling the application it fetched as row
PassHandles(row) ==
  /\ pass.pc = "loop" /\ pass.idx < Len(pass.rows)
  /\ pass'.idx = pass.idx + 1
  /\ row = pass.rows[pass.idx + 1]

\* C25: when the pass handles an application whose status the mail routine has written
\* since the pass fetched its list, the pass leaves that status as it is.
C25_PassKeepsStatusWrittenByMail ==
  [][ \A row \in { pass.rows[k] : k \in 1..Len(pass.rows) } :
        ( /\ PassHandles(row)
          /\ applications[row.id].current_status \in MailStatuses
          /\ applications[row.id].current_status # row.current_status )
          => applications'[row.id].current_status = applications[row.id].current_status
    ]_vars

\* C26: the mail routine creates at most one application per company and job title: no
\* two applications created from emails have the same company and the same job title,
\* also when two batches interleave
C26_OneApplicationPerCompanyAndTitle ==
  \A i, j \in DOMAIN applications :
    ( /\ i # j
      /\ applications[i].source_site = "email"
      /\ applications[j].source_site = "email" )
      => \/ applications[i].company_name # applications[j].company_name
         \/ applications[i].job_title # applications[j].job_title

\* C28: an application that is APPLIED and gets no email eventually reaches NO_RESPONSE
\* while aging passes keep running and the days go by; once it is NO_RESPONSE no step of
\* an aging pass changes its current_status
C28_AppliedEventuallyNoResponse ==
  /\ \A i \in LiveIds :
        (i \in DOMAIN applications /\ applications[i].current_status = "APPLIED")
          ~> (i \in DOMAIN applications /\ applications[i].current_status = "NO_RESPONSE")
  /\ [][ \A i \in DOMAIN applications :
            applications[i].current_status = "NO_RESPONSE"
              => applications'[i].current_status = "NO_RESPONSE" ]_vars

\* an application that began APPLIED has been moved to NO_RESPONSE by a pass of a
\* later day, after an earlier pass had suggested the follow-up
C28_Witness ==
  /\ now > Today
  /\ \E i \in DOMAIN applications :
       /\ applications[i].current_status = "NO_RESPONSE"
       /\ \E k \in DOMAIN status_history :
            /\ status_history[k].application_id = i
            /\ status_history[k].old_status = "FOLLOW_UP_SUGGESTED"
            /\ status_history[k].new_status = "NO_RESPONSE"
       /\ \E k \in DOMAIN status_history :
            /\ status_history[k].application_id = i
            /\ status_history[k].old_status = "APPLIED"
            /\ status_history[k].new_status = "FOLLOW_UP_SUGGESTED"

MetricsComputed == probe.fn = "computeMetrics" /\ probe.calls = Len(MetricReads) + 1

\* a rate in hundredths of a percent that lies between 0 and 100 percent
WithinHundred(rate) == 0 <= rate /\ rate <= 100 * 100

\* C29: the interview, offer and rejection rates that computeMetrics returns are 0 when
\* no application was counted and lie within [0, 100], also when the mail routine writes
\* applications between the reads of computeMetrics
C29_RatesWithinHundred ==
  MetricsComputed =>
    /\ probe.input.total = 0 =>
          /\ probe.output.interviewRate = 0
          /\ probe.output.offerRate = 0
          /\ probe.output.rejectionRate = 0
    /\ WithinHundred(probe.output.interviewRate)
    /\ WithinHundred(probe.output.offerRate)
    /\ WithinHundred(probe.output.rejectionRate)

\* the applications of one of the statuses whose description contains the skill
ContainingSkill(statuses, skill) ==
  Cardinality({ i \in DOMAIN applications :
                  /\ applications[i].current_status \in statuses
                  /\ DescriptionIncludes(applications[i].description, skill) })

\* C30: for each skill written by a run of analyzeMarketSkills, appears_in_rejections is
\* the number of REJECTED applications whose description contains the skill and
\* appears_in_offers the number of OFFER or ACCEPTED applications whose description
\* contains it
C30_AppearancesCountOffersAndAccepted ==
  SkillsDone =>
    \A skill \in WrittenSkills :
      /\ skill_demand[skill].appears_in_rejections = ContainingSkill({"REJECTED"}, skill)
      /\ skill_demand[skill].appears_in_offers = ContainingSkill({"OFFER", "ACCEPTED"}, skill)

====
